---------------------------- MODULE Spec2Model ----------------------------
(***************************************************************************)
(* Motion-spec extraction pipeline of MotionInspector:                     *)
(*   docs/Motion_Spec_Desktop_Export.jsx    (After Effects exporter)       *)
(*   docs/MOTION_SPEC_PROCESSING_GUIDE.md   (bridge server / Figma plugin  *)
(*                                           stages, quoted as code)       *)
(*                                                                         *)
(* Each component of the pipeline has its own state variables and its own  *)
(* specification; the variables of the other components stay idle.         *)
(***************************************************************************)
EXTENDS Integers, Sequences, FiniteSets, TLC

VARIABLES
    \* ---- resolution scaling (panel dropdown + buildMotionSpecData metadata)
    SCALE_OVERRIDE,     \* MOTION_SPEC_CONFIG.SCALE_OVERRIDE
    comp,               \* the active composition: [width, height]
    composition,        \* <<motionSpec.metadata.composition>> of the last build, <<>> before any
    \* ---- cubic-bezier preset matcher
    cubicBezier,        \* the cubic-bezier string handed to the matcher
    presetName,         \* what matchCubicBezierWithTolerance returned
    bezPc,              \* "ready" | "matched"
    \* ---- extraction of one property, and the stages after it
    layer,              \* the layer under extraction: [marker: its layer markers]
    properties,         \* the layer's properties with selected keyframes, still to extract
    propInfo,           \* the property extracted last: [name, matchName, keys]
    multiplier,         \* the resolution multiplier the build passes down
    workAreaStart,      \* comp.workAreaStart
    animationData,      \* <<what extractAnimationData returned>>, <<>> before
    animationsData,     \* the layer's "animations" array of the exported JSON document
    animations,         \* the bridge server's list for the layer (processAnimations)
    grouped,            \* the Figma plugin's list for the layer (groupPositionAnimations)
    regroups,           \* how many times the regrouper has run on the list
    pipePc,             \* "extract" | "split" | "group" | "grouped" | "described"
    fitToShapeData,     \* <<detectFitToShapeEffect(layer)>>, <<>> for null
    descriptions,       \* the template engine's answer for each entry of animations
    \* ---- stagger detection over the layers of a document
    layers,             \* MotionSpecLayer[]: [name, animations]
    groups,             \* StaggerGroup[]: what detectStaggeredAnimations returned
    staggerPc,          \* "detect" | "done"
    \* ---- buildMotionSpecData over the selected layers of a composition
    compLayers,         \* comp.layer(1..numLayers)
    selectedLayers,     \* the indices of the selected layers, in selection order
    fault,              \* the one place where After Effects throws during the build, or NoFault
    motionSpec,         \* <<what buildMotionSpecData returned>>, <<>> before
    buildPc,            \* "build" | "returned" | "threw"
    now,                \* the clock (seconds) as the last build read it
    earlier,            \* <<the document of the run before the last one>>, <<>> if none
    result              \* <<what the export entry point answered>>, <<>> if none ran

scaleVars == <<SCALE_OVERRIDE, comp, composition>>
bezVars == <<cubicBezier, presetName, bezPc>>
pipeVars == <<layer, properties, propInfo, multiplier, workAreaStart, animationData, animationsData,
              animations, grouped, regroups, pipePc, fitToShapeData, descriptions>>
staggerVars == <<layers, groups, staggerPc>>
buildVars == <<compLayers, selectedLayers, fault, motionSpec, buildPc, now, earlier, result>>
vars == <<scaleVars, bezVars, pipeVars, staggerVars, buildVars>>

NoValue == "none"       \* JavaScript null / undefined

Abs(x) == IF x < 0 THEN -x ELSE x
Max(a, b) == IF a >= b THEN a ELSE b
Min(a, b) == IF a <= b THEN a ELSE b

(***************************************************************************)
(* JavaScript numbers.  The code computes in IEEE-754 binary64.  A decimal *)
(* literal with at most three decimals is the integer h of its thousandths;*)
(* the binary64 number next to it is [h, e], standing for the exact value  *)
(*      (h * 2^Kexp + e) / (Den * 2^Kexp)                                  *)
(* where e is the (tiny) rounding error in units of 1/(Den * 2^Kexp).      *)
(* All the arithmetic below is on small integers: the multiples of 2^Kexp  *)
(* are only ever taken modulo one unit in the last place.                  *)
(***************************************************************************)
Den == 10 * 10 * 10                 \* decimal grid: thousandths
Kexp == 52 + 10                     \* 2^-10 < 1/Den: every h >= 1 has an integral ulp

RECURSIVE Pow2(_)
Pow2(n) == IF n = 0 THEN 1 ELSE 2 * Pow2(n - 1)

RECURSIVE Pow2Mod(_, _)
Pow2Mod(n, m) == IF n = 0 THEN 1 % m ELSE (2 * Pow2Mod(n - 1, m)) % m

\* floor(log2(h / Den)) for h >= 1: the binary exponent of the decimal h/Den
RECURSIVE Log2Floor(_)
Log2Floor(h) ==
    IF h >= 2 * Den THEN 1 + Log2Floor(h \div 2)
    ELSE IF h < Den THEN Log2Floor(2 * h) - 1
    ELSE 0

IsPow2Den(h) == h = Den * Pow2(Max(Log2Floor(h), 0)) \/ h * Pow2(Max(-Log2Floor(h), 0)) = Den

\* binary exponent of the exact value (h * 2^Kexp + e): one binade lower when the
\* value lies just below a power of two
Binade(h, e) == IF IsPow2Den(h) /\ e < 0 THEN Log2Floor(h) - 1 ELSE Log2Floor(h)

\* (h * 2^Kexp) modulo m = Den * 2^j, for j <= Kexp
ShiftMod(h, j) == Pow2(j) * ((h * Pow2Mod(Kexp - j, Den)) % Den)

\* round-to-nearest, ties-to-even, of the exact value (h * 2^Kexp + e0)
Round64(h, e0) ==
    IF h = 0 THEN [h |-> 0, e |-> 0]
    ELSE LET j     == Kexp + Binade(h, e0) - 52
             ulp   == Den * Pow2(j)
             r     == (ShiftMod(h, j) + e0) % ulp
             down  == e0 - r
             up    == e0 + (ulp - r)
             \* parity of the mantissa of the rounded-down candidate
             odd   == ((ShiftMod(h, j + 1) + down) % (2 * ulp)) # 0
         IN  IF 2 * r < ulp THEN [h |-> h, e |-> down]
             ELSE IF 2 * r > ulp THEN [h |-> h, e |-> up]
             ELSE IF odd THEN [h |-> h, e |-> up] ELSE [h |-> h, e |-> down]

\* Number("0.35"), parseFloat("0.35"): the binary64 nearest to the decimal
Number(h) == Round64(h, 0)

Less64(a, b) == a.h < b.h \/ (a.h = b.h /\ a.e < b.e)

\* Math.abs(a - b): one correctly rounded subtraction (negation is exact)
AbsDiff64(a, b) ==
    IF Less64(a, b) THEN Round64(b.h - a.h, b.e - a.e)
    ELSE Round64(a.h - b.h, a.e - b.e)

(***************************************************************************)
(* Resolution scaling: detectCompositionMultiplier, the panel's scale      *)
(* dropdown, and the composition metadata buildMotionSpecData records.     *)
(***************************************************************************)
DropdownItems == <<"Auto-detect", "1x", "2x", "3x", "4x">>

resolutionPatterns == <<
    [multiplier |-> 1, widths |-> <<375, 390, 414, 428, 393>>,
                       heights |-> <<667, 844, 896, 926, 852>>],
    [multiplier |-> 2, widths |-> <<750, 780, 828, 856, 786>>,
                       heights |-> <<1334, 1688, 1792, 1852, 1704>>],
    [multiplier |-> 3, widths |-> <<1125, 1170, 1242, 1284, 1179>>,
                       heights |-> <<2001, 2532, 2688, 2778, 2556>>],
    [multiplier |-> 1, widths |-> <<360, 411, 393, 412>>,
                       heights |-> <<640, 731, 786, 915>>],
    [multiplier |-> 2, widths |-> <<720, 822, 786, 824>>,
                       heights |-> <<1280, 1462, 1572, 1830>>],
    [multiplier |-> 3, widths |-> <<1080, 1233, 1179, 1236>>,
                       heights |-> <<1920, 2193, 2358, 2745>>] >>

PatternTolerance == 5

\* a test that takes the width at index j with a height at any index
PatternHitAnyHeight(i, j, width, height) ==
    /\ Abs(width - resolutionPatterns[i].widths[j]) <= PatternTolerance
    /\ \E k \in 1..Len(resolutionPatterns[i].heights) :
          Abs(height - resolutionPatterns[i].heights[k]) <= PatternTolerance

\* pattern i matches at index j: same index for the width and the height
PatternHit(i, j, width, height) ==
    /\ Abs(width - resolutionPatterns[i].widths[j]) <= PatternTolerance
    /\ Abs(height - resolutionPatterns[i].heights[j]) <= PatternTolerance

\* the two nested loops: first (i, j) in loop order that matches
RECURSIVE ScanPatterns(_, _, _, _)
ScanPatterns(i, j, width, height) ==
    IF i > Len(resolutionPatterns) THEN 1                       \* fallback: assume 1x
    ELSE IF j > Len(resolutionPatterns[i].widths) THEN ScanPatterns(i + 1, 1, width, height)
    ELSE IF PatternHit(i, j, width, height) THEN resolutionPatterns[i].multiplier
    ELSE ScanPatterns(i, j + 1, width, height)

\* a detector that consults the override only when no pattern matches
AutoFirstMultiplier(c, override) ==
    IF \E i \in 1..Len(resolutionPatterns) :
          \E j \in 1..Len(resolutionPatterns[i].widths) : PatternHit(i, j, c.width, c.height)
    THEN ScanPatterns(1, 1, c.width, c.height)
    ELSE IF override > 0 THEN override ELSE 1

detectCompositionMultiplier(c, override) ==
    IF override > 0 THEN override
    ELSE ScanPatterns(1, 1, c.width, c.height)

\* composition sizes tried: pattern entries, on and just off the +-5 band, entries of
\* one pattern at different indexes, and sizes no pattern knows
CompWidths == {375, 380, 381, 750, 780, 786, 1125, 1080, 500}
CompHeights == {667, 672, 673, 1334, 1688, 1704, 1572, 2001, 1920, 900}
Comps == [width : CompWidths, height : CompHeights]

ScaleInit ==
    /\ SCALE_OVERRIDE = 0
    /\ comp \in Comps
    /\ composition = <<>>

ScaleIdle ==
    /\ SCALE_OVERRIDE = 0
    /\ comp = [width |-> 0, height |-> 0]
    /\ composition = <<>>

\* scaleDropdown.onChange
ScaleDropdownOnChange(index) ==
    /\ SCALE_OVERRIDE' = index
    /\ UNCHANGED <<comp, composition>>

\* buildMotionSpecData: the multiplier and the metadata.composition block
BuildCompositionMetadata ==
    /\ composition' =
          << [width |-> comp.width, height |-> comp.height,
              appliedScale |-> detectCompositionMultiplier(comp, SCALE_OVERRIDE),
              scaleMode |-> IF SCALE_OVERRIDE > 0 THEN "manual" ELSE "auto",
              scaleSettingIndex |-> SCALE_OVERRIDE] >>
    /\ UNCHANGED <<SCALE_OVERRIDE, comp>>

(***************************************************************************)
(* Cubic-bezier strings and the preset matcher.                            *)
(* A numeral is its digits without the point (m) and its number of         *)
(* decimals (d): "0.2" is [m=2, d=1], "0.20" is [m=20, d=2], "1" is        *)
(* [m=1, d=0].  A cubic-bezier string is its four numerals; two strings    *)
(* are the same string iff the numerals are the same.                      *)
(***************************************************************************)
Numeral(m, d) == [m |-> m, d |-> d]

RECURSIVE Pow10(_)
Pow10(n) == IF n = 0 THEN 1 ELSE 10 * Pow10(n - 1)

\* x.toFixed(2) of a number of c hundredths
ToFixed2(c) == Numeral(c, 2)

\* the shortest decimal writing of c hundredths ("0.2", "0", "1", "0.35")
Shortest(c) ==
    IF c % 100 = 0 THEN Numeral(c \div 100, 0)
    ELSE IF c % 10 = 0 THEN Numeral(c \div 10, 1)
    ELSE Numeral(c, 2)

\* Number(text) of a numeral: the binary64 nearest to the decimal it writes
NumberOf(n) == Number(n.m * Pow10(3 - n.d))

CUBIC_BEZIER_PRESETS == <<
    [key |-> <<Numeral(2, 1), Numeral(0, 0), Numeral(0, 0), Numeral(1, 0)>>,
     name |-> "Standard Curve"],
    [key |-> <<Numeral(1, 1), Numeral(9, 1), Numeral(2, 1), Numeral(1, 0)>>,
     name |-> "Enter Curve"],
    [key |-> <<Numeral(4, 1), Numeral(0, 0), Numeral(1, 0), Numeral(1, 0)>>,
     name |-> "Exit Curve"] >>

BezierTolerance == 150          \* const tolerance = 0.15, in thousandths

\* Math.abs(x - px) < tolerance, all four
WithinTolerance(bez, key) ==
    \A i \in 1..4 :
        Less64(AbsDiff64(NumberOf(bez[i]), NumberOf(key[i])), Number(BezierTolerance))

\* the for-of loop over Object.entries(CUBIC_BEZIER_PRESETS), in insertion order
RECURSIVE FirstPresetWithin(_, _)
FirstPresetWithin(bez, k) ==
    IF k > Len(CUBIC_BEZIER_PRESETS) THEN NoValue
    ELSE IF WithinTolerance(bez, CUBIC_BEZIER_PRESETS[k].key) THEN CUBIC_BEZIER_PRESETS[k].name
    ELSE FirstPresetWithin(bez, k + 1)

matchCubicBezierWithTolerance(bez) ==
    IF \E k \in 1..Len(CUBIC_BEZIER_PRESETS) : CUBIC_BEZIER_PRESETS[k].key = bez   \* exact match
    THEN (CHOOSE p \in {CUBIC_BEZIER_PRESETS[k] : k \in 1..Len(CUBIC_BEZIER_PRESETS)} : p.key = bez).name
    ELSE FirstPresetWithin(bez, 1)

\* value of a numeral in hundredths, as a decimal (numerals here have d <= 2)
Hundredths(n) == n.m * Pow10(2 - n.d)

\* coordinates tried: on each preset coordinate, and one step inside, on and outside
\* the tolerance on either side of it
BoundaryOffsets == {0, 14, 15, 16}
CoordsAt(i) ==
    {c \in 0..100 : \E k \in 1..Len(CUBIC_BEZIER_PRESETS) :
                        Abs(c - Hundredths(CUBIC_BEZIER_PRESETS[k].key[i])) \in BoundaryOffsets}

\* what extractCubicBezierFromSelectedKeyframesForProperty writes (toFixed(2)), and the
\* same tuples in their shortest writing
BezierStrings ==
    {<<f[c[1]], f[c[2]], f[c[3]], f[c[4]]>> :
        c \in CoordsAt(1) \X CoordsAt(2) \X CoordsAt(3) \X CoordsAt(4),
        f \in {[x \in 0..100 |-> ToFixed2(x)], [x \in 0..100 |-> Shortest(x)]}}

BezInit ==
    /\ cubicBezier \in BezierStrings
    /\ presetName = NoValue
    /\ bezPc = "ready"

BezIdle ==
    /\ cubicBezier = <<>>
    /\ presetName = NoValue
    /\ bezPc = "idle"

MatchCubicBezier ==
    /\ bezPc = "ready"
    /\ presetName' = matchCubicBezierWithTolerance(cubicBezier)
    /\ bezPc' = "matched"
    /\ UNCHANGED cubicBezier

(***************************************************************************)
(* Strings.  Property names are strings; where the code looks inside one   *)
(* (indexOf, toLowerCase) the string is spelled out by Chars.              *)
(***************************************************************************)
Chars(s) ==
    CASE s = "Position" -> <<"P", "o", "s", "i", "t", "i", "o", "n">>
      [] s = "X Position" -> <<"X", " ", "P", "o", "s", "i", "t", "i", "o", "n">>
      [] s = "Scale" -> <<"S", "c", "a", "l", "e">>
      [] s = "Opacity" -> <<"O", "p", "a", "c", "i", "t", "y">>
      [] s = "Rotation" -> <<"R", "o", "t", "a", "t", "i", "o", "n">>
      [] s = "Unified Radius" -> <<"U", "n", "i", "f", "i", "e", "d", " ", "R", "a", "d", "i", "u", "s">>
      [] s = "Width" -> <<"W", "i", "d", "t", "h">>
      [] s = "Stroke Width" -> <<"S", "t", "r", "o", "k", "e", " ", "W", "i", "d", "t", "h">>
      [] s = "Slider" -> <<"S", "l", "i", "d", "e", "r">>
      [] s = "Position X" -> <<"P", "o", "s", "i", "t", "i", "o", "n", " ", "X">>
      [] s = "Position Y" -> <<"P", "o", "s", "i", "t", "i", "o", "n", " ", "Y">>
      [] s = "opacity" -> <<"o", "p", "a", "c", "i", "t", "y">>
      [] s = "rotation" -> <<"r", "o", "t", "a", "t", "i", "o", "n">>
      [] s = "tl" -> <<"t", "l">>
      [] s = "tr" -> <<"t", "r">>
      [] s = "bl" -> <<"b", "l">>
      [] s = "br" -> <<"b", "r">>
      [] s = "unified radius" -> <<"u", "n", "i", "f", "i", "e", "d", " ", "r", "a", "d", "i", "u", "s">>
      [] s = "unified corners" -> <<"u", "n", "i", "f", "i", "e", "d", " ", "c", "o", "r", "n", "e", "r", "s">>
      [] s = "top left" -> <<"t", "o", "p", " ", "l", "e", "f", "t">>
      [] s = "top right" -> <<"t", "o", "p", " ", "r", "i", "g", "h", "t">>
      [] s = "bottom left" -> <<"b", "o", "t", "t", "o", "m", " ", "l", "e", "f", "t">>
      [] s = "bottom right" -> <<"b", "o", "t", "t", "o", "m", " ", "r", "i", "g", "h", "t">>
      [] s = "corner" -> <<"c", "o", "r", "n", "e", "r">>
      [] s = "radius" -> <<"r", "a", "d", "i", "u", "s">>
      [] s = "smoothing" -> <<"s", "m", "o", "o", "t", "h", "i", "n", "g">>
      [] s = "width" -> <<"w", "i", "d", "t", "h">>
      [] s = "height" -> <<"h", "e", "i", "g", "h", "t">>
      [] s = "size" -> <<"s", "i", "z", "e">>
      [] s = "distance" -> <<"d", "i", "s", "t", "a", "n", "c", "e">>
      [] s = "position" -> <<"p", "o", "s", "i", "t", "i", "o", "n">>
      [] s = "softness" -> <<"s", "o", "f", "t", "n", "e", "s", "s">>
      [] s = "Y Position" -> <<"Y", " ", "P", "o", "s", "i", "t", "i", "o", "n">>
      [] s = "X Rotation" -> <<"X", " ", "R", "o", "t", "a", "t", "i", "o", "n">>
      [] s = "Y Rotation" -> <<"Y", " ", "R", "o", "t", "a", "t", "i", "o", "n">>
      [] s = "Z Rotation" -> <<"Z", " ", "R", "o", "t", "a", "t", "i", "o", "n">>
      [] s = "alpha" -> <<"a", "l", "p", "h", "a">>
      [] s = "scale" -> <<"s", "c", "a", "l", "e">>
      [] s = "x" -> <<"x">>
      [] s = "y" -> <<"y">>
      [] s = "z" -> <<"z">>

LowerOf ==
    ("A" :> "a") @@ ("B" :> "b") @@ ("C" :> "c") @@ ("D" :> "d") @@ ("E" :> "e") @@ ("F" :> "f") @@
    ("G" :> "g") @@ ("H" :> "h") @@ ("I" :> "i") @@ ("J" :> "j") @@ ("K" :> "k") @@ ("L" :> "l") @@
    ("M" :> "m") @@ ("N" :> "n") @@ ("O" :> "o") @@ ("P" :> "p") @@ ("Q" :> "q") @@ ("R" :> "r") @@
    ("S" :> "s") @@ ("T" :> "t") @@ ("U" :> "u") @@ ("V" :> "v") @@ ("W" :> "w") @@ ("X" :> "x") @@
    ("Y" :> "y") @@ ("Z" :> "z")

ToLowerCase(cs) == [i \in 1..Len(cs) |-> IF cs[i] \in DOMAIN LowerOf THEN LowerOf[cs[i]] ELSE cs[i]]

\* hay.indexOf(pat) !== -1
Contains(hay, pat) ==
    \E i \in 0..(Len(hay) - Len(pat)) : \A k \in 1..Len(pat) : hay[i + k] = pat[k]

NameHas(name, pat) == Contains(Chars(name), Chars(pat))
LowerNameHas(name, pat) == Contains(ToLowerCase(Chars(name)), Chars(pat))

(***************************************************************************)
(* Pixel, degree and percent values are fixed-point: Tick ticks to the     *)
(* unit.  Keyframe values are whole or half units; a whole number of units *)
(* divided by a multiplier in 1..4 is a whole number of ticks, so the      *)
(* division below is exact.                                                *)
(***************************************************************************)
Tick == 2 * 12
Half == Tick \div 2

\* Math.round: to the nearest whole unit, halves upward
MathRound(t) == Tick * ((t + Half) \div Tick)

roundPx(pixels) == IF Abs(pixels) < Half THEN 0 ELSE MathRound(pixels)

\* times are fixed-point as well: MsTick ticks to the millisecond
MsTick == 2 * 2
roundMs(t) ==
    IF Abs(t) < MsTick \div 2 THEN 0
    ELSE (t + MsTick \div 2) \div MsTick

(***************************************************************************)
(* extractPropertyValues.  A keyframe value is a sequence of ticks: one    *)
(* component for a scalar, two for [x, y].  null is <<>>.  The formatted   *)
(* strings are display text built from the same numbers and are left out.  *)
(***************************************************************************)
SelectedKeys(keys) == SelectSeq(keys, LAMBDA k : k.selected)

DefaultValues ==
    [startValue |-> <<>>, endValue |-> <<>>, change |-> <<>>, type |-> "unknown",
     animatingAxes |-> <<>>]

isCornerProperty(name) ==
    \/ LowerNameHas(name, "tl") \/ LowerNameHas(name, "tr")
    \/ LowerNameHas(name, "bl") \/ LowerNameHas(name, "br")
    \/ LowerNameHas(name, "unified radius") \/ LowerNameHas(name, "unified corners")
    \/ LowerNameHas(name, "top left") \/ LowerNameHas(name, "top right")
    \/ LowerNameHas(name, "bottom left") \/ LowerNameHas(name, "bottom right")
    \/ LowerNameHas(name, "corner") \/ LowerNameHas(name, "radius")
    \/ LowerNameHas(name, "smoothing")

isDimensionalProperty(name) ==
    \/ LowerNameHas(name, "width") \/ LowerNameHas(name, "height")
    \/ LowerNameHas(name, "size") \/ LowerNameHas(name, "distance")
    \/ LowerNameHas(name, "softness")

\* value / multiplier, then the three rounded fields, for a scalar
ScaledScalar(startKey, endKey, m, type) ==
    LET startVal  == startKey.value[1] \div m
        endVal    == endKey.value[1] \div m
        changeVal == endVal - startVal
    IN  [startValue |-> <<roundPx(startVal)>>, endValue |-> <<roundPx(endVal)>>,
         change |-> <<roundPx(changeVal)>>, type |-> type, animatingAxes |-> <<>>]

\* a scalar of a kind that is not a length, divided by the multiplier all the same
DividedScalar(startKey, endKey, m, type) ==
    [startValue |-> <<startKey.value[1] \div m>>, endValue |-> <<endKey.value[1] \div m>>,
     change |-> <<(endKey.value[1] - startKey.value[1]) \div m>>, type |-> type,
     animatingAxes |-> <<>>]

\* opacity, rotation and the other scalars: the value as it is; the multiplier m is
\* not applied, and nothing is rounded
PassThrough(startKey, endKey, m, type) ==
    [startValue |-> <<startKey.value[1]>>, endValue |-> <<endKey.value[1]>>,
     change |-> <<endKey.value[1] - startKey.value[1]>>, type |-> type,
     animatingAxes |-> <<>>]

extractPropertyValues(prop, m) ==
    LET sel == SelectedKeys(prop.keys)
    IN
    IF Len(sel) < 2 THEN DefaultValues
    ELSE
    LET startKey == sel[1]
        endKey   == sel[Len(sel)]
    IN
    IF NameHas(prop.name, "Position") THEN
        IF Len(startKey.value) >= 2 THEN
            LET startX  == startKey.value[1] \div m
                startY  == startKey.value[2] \div m
                endX    == endKey.value[1] \div m
                endY    == endKey.value[2] \div m
                changeX == endX - startX
                changeY == endY - startY
                xAnimates == Abs(changeX) > Half
                yAnimates == Abs(changeY) > Half
            IN  [startValue |-> <<roundPx(startX), roundPx(startY)>>,
                 endValue |-> <<roundPx(endX), roundPx(endY)>>,
                 change |-> <<roundPx(changeX), roundPx(changeY)>>,
                 type |-> "position",
                 animatingAxes |-> << [x |-> xAnimates, y |-> yAnimates,
                                       both |-> xAnimates /\ yAnimates,
                                       neither |-> ~xAnimates /\ ~yAnimates] >>]
        ELSE ScaledScalar(startKey, endKey, m, "position")
    ELSE IF NameHas(prop.name, "Scale") THEN
        IF Len(startKey.value) >= 2 THEN
            [startValue |-> <<startKey.value[1], startKey.value[2]>>,
             endValue |-> <<endKey.value[1], endKey.value[2]>>,
             change |-> <<endKey.value[1] - startKey.value[1],
                          endKey.value[2] - startKey.value[2]>>,
             type |-> "scale", animatingAxes |-> <<>>]
        ELSE [DefaultValues EXCEPT !.type = "scale"]
    ELSE IF NameHas(prop.name, "Opacity") \/ NameHas(prop.name, "opacity") THEN
        PassThrough(startKey, endKey, m, "opacity")
    ELSE IF NameHas(prop.name, "Rotation") \/ NameHas(prop.name, "rotation") THEN
        PassThrough(startKey, endKey, m, "rotation")
    ELSE IF isCornerProperty(prop.name) THEN
        ScaledScalar(startKey, endKey, m, "corner_radius")
    ELSE IF isDimensionalProperty(prop.name) THEN
        ScaledScalar(startKey, endKey, m, "dimensional")
    ELSE PassThrough(startKey, endKey, m, "unknown")

(***************************************************************************)
(* Spring markers.  A marker comment is its trimmed non-empty lines; a     *)
(* line is told apart the way the parser tells it apart:                   *)
(*   "name"      it contains 'Spring' or 'Custom' (text: the whole line)   *)
(*   "params"    it contains 'Stiffness:' (params: what the four regular   *)
(*               expressions capture, in thousandths)                      *)
(*   "property"  it contains 'Property:' (path: the property path left     *)
(*               after the removals and the trim, as its segments)         *)
(*   "text"      anything else                                             *)
(* A spring is [preset, custom, property]; custom is <<>> for null or      *)
(* <<f>>, f the parameters that are present; property <<>> is none.        *)
(***************************************************************************)
SPRING_PRESETS ==
    [p \in {"Standard Spring", "Fast Spring", "Slow Spring",
            "Gentle Spring", "Snappy Spring", "Bouncy Spring"} |->
        CASE p = "Standard Spring" ->
                [stiffness |-> 175000, damping |-> 26460, dampingRatio |-> 1000, mass |-> 1000]
          [] p = "Fast Spring" ->
                [stiffness |-> 300000, damping |-> 34640, dampingRatio |-> 1000, mass |-> 1000]
          [] p = "Slow Spring" ->
                [stiffness |-> 100000, damping |-> 20000, dampingRatio |-> 1000, mass |-> 1000]
          [] p = "Gentle Spring" ->
                [stiffness |-> 120000, damping |-> 18000, dampingRatio |-> 800, mass |-> 1000]
          [] p = "Snappy Spring" ->
                [stiffness |-> 400000, damping |-> 40000, dampingRatio |-> 1000, mass |-> 1000]
          [] p = "Bouncy Spring" ->
                [stiffness |-> 200000, damping |-> 12000, dampingRatio |-> 600, mass |-> 1000]]

SpringParams == {"stiffness", "damping", "dampingRatio", "mass"}

\* the spring a name line at index i starts, and the index of the last line it consumed
SpringAt(lines, i) ==
    LET hasParams == i + 1 <= Len(lines) /\ lines[i + 1].kind = "params"
        pl        == lines[i + 1].params
        custom    == IF hasParams /\ {"stiffness", "damping"} \subseteq DOMAIN pl
                     THEN <<pl>> ELSE <<>>
        i2        == IF hasParams THEN i + 1 ELSE i
        hasProp   == i + 1 <= Len(lines) /\ i2 + 1 <= Len(lines)
                        /\ lines[i2 + 1].kind = "property"
    IN  [spring |-> [preset |-> lines[i].text, custom |-> custom,
                     property |-> IF hasProp THEN lines[i2 + 1].path ELSE <<>>],
         last |-> IF hasProp THEN i2 + 1 ELSE i2]

RECURSIVE ParseFrom(_, _)
ParseFrom(lines, i) ==
    IF i > Len(lines) THEN <<>>
    ELSE IF lines[i].kind = "name"
         THEN LET r == SpringAt(lines, i) IN <<r.spring>> \o ParseFrom(lines, r.last + 1)
         ELSE ParseFrom(lines, i + 1)

parseAllSpringsFromMarker(markerComment) == ParseFrom(markerComment, 1)

\* marker path ends with the property's matchName
EndsWith(path, name) ==
    /\ Len(path) >= Len(name)
    /\ SubSeq(path, Len(path) - Len(name) + 1, Len(path)) = name

FirstIndex(springs, Test(_)) ==
    IF \E i \in 1..Len(springs) : Test(springs[i])
    THEN CHOOSE i \in 1..Len(springs) :
            Test(springs[i]) /\ \A k \in 1..(i - 1) : ~Test(springs[k])
    ELSE 0

\* <<spring>> or <<>> for null
findSpringForProperty(springs, propertyName) ==
    LET exact   == FirstIndex(springs, LAMBDA sp : sp.property # <<>> /\ sp.property = propertyName)
        byPath  == FirstIndex(springs, LAMBDA sp : sp.property # <<>> /\ EndsWith(sp.property, propertyName))
        generic == FirstIndex(springs, LAMBDA sp : sp.property = <<>>)
    IN  IF exact # 0 THEN <<springs[exact]>>
        ELSE IF byPath # 0 THEN <<springs[byPath]>>
        ELSE IF generic # 0 THEN <<springs[generic]>>
        ELSE <<>>

\* "Fill in missing parameters with presets": !x is true of a missing and of a zero value
Backfill(matchedSpring) ==
    IF matchedSpring.preset \in DOMAIN SPRING_PRESETS
    THEN LET preset == SPRING_PRESETS[matchedSpring.preset]
             given  == IF matchedSpring.custom = <<>> THEN <<>> ELSE matchedSpring.custom[1]
         IN  [preset |-> matchedSpring.preset,
              custom |-> << [q \in SpringParams |->
                               IF q \in DOMAIN given /\ given[q] # 0 THEN given[q]
                               ELSE preset[q]] >>]
    ELSE [preset |-> matchedSpring.preset, custom |-> matchedSpring.custom]

(***************************************************************************)
(* Easings.  [type, spring, cubicBezier, source]: spring is <<>> or        *)
(* <<[preset, custom]>>, cubicBezier is <<>> or the string's four          *)
(* numerals, source NoValue is null.                                       *)
(***************************************************************************)
LinearEasing == [type |-> "linear", spring |-> <<>>, cubicBezier |-> <<>>, source |-> NoValue]
SpringEasing(springData) ==
    [type |-> "spring", spring |-> <<springData>>, cubicBezier |-> <<>>, source |-> "marker"]
BezierEasing(bez) ==
    [type |-> "cubic-bezier", spring |-> <<>>, cubicBezier |-> bez, source |-> "keyframes"]

\* the easing the baked-spring step would write (source: "baked")
BakedEasing(bakedSpring) ==
    [type |-> "spring",
     spring |-> << [preset |-> bakedSpring.classification,
                    custom |-> << SPRING_PRESETS[bakedSpring.classification] >>] >>,
     cubicBezier |-> <<>>, source |-> "baked"]

\* detectBakedSpringInRange: <<>> for null.  keyframeDensity is keys per second;
\* times are in ticks of 1/MsTick ms, so density >= d reads
\* keysInRange * 1000 * MsTick >= d * rangeDuration.
detectBakedSpringInRange(keys, startTime, endTime) ==
    LET keysInRange   == Cardinality({ i \in 1..Len(keys) :
                                         keys[i].time >= startTime /\ keys[i].time <= endTime })
        rangeDuration == endTime - startTime
        perSecond     == keysInRange * 1000 * MsTick
    IN  IF Len(keys) < 2 THEN <<>>
        ELSE IF keysInRange >= 20 /\ perSecond >= 20 * rangeDuration
        THEN << [detected |-> TRUE, keysInRange |-> keysInRange,
                 classification |-> IF perSecond > 30 * rangeDuration THEN "Fast Spring"
                                    ELSE IF perSecond > 25 * rangeDuration THEN "Standard Spring"
                                    ELSE "Gentle Spring"] >>
        ELSE <<>>

Clamp100(c) == Max(0, Min(100, c))

\* extractCubicBezierFromSelectedKeyframesForProperty: <<>> for null.  Influence and
\* speed are whole percents here, so the rounding to two decimals changes nothing.
extractCubicBezier(keys) ==
    LET sel == SelectSeq(keys, LAMBDA k : k.selected /\ (k.inInterp = "BEZIER" \/ k.outInterp = "BEZIER"))
    IN  IF Len(keys) < 2 \/ Len(sel) < 2 THEN <<>>
        ELSE LET firstKey  == sel[1]
                 secondKey == sel[2]
             IN  IF Len(firstKey.outEase) > 0 /\ Len(secondKey.inEase) > 0
                 THEN LET o == firstKey.outEase[1]
                          n == secondKey.inEase[1]
                      IN  << ToFixed2(Clamp100(o.influence)), ToFixed2(Clamp100(o.speed)),
                             ToFixed2(Clamp100(100 - n.influence)),
                             ToFixed2(Clamp100(100 - n.speed)) >>
                 ELSE <<>>

\* the marker loop: the first marker, in marker order, that lies in the selected range,
\* has a comment and yields a spring for the property; 0 if none
InRange(mk, selectedTimes) ==
    /\ mk.time >= selectedTimes[1]
    /\ mk.time <= selectedTimes[Len(selectedTimes)]

MarkerMatches(mk, selectedTimes, matchName) ==
    /\ InRange(mk, selectedTimes)
    /\ mk.comment # <<>>
    /\ findSpringForProperty(parseAllSpringsFromMarker(mk.comment), matchName) # <<>>

FirstMatchingMarker(markers, selectedTimes, matchName) ==
    IF Len(selectedTimes) >= 2 /\ \E m \in 1..Len(markers) : MarkerMatches(markers[m], selectedTimes, matchName)
    THEN CHOOSE m \in 1..Len(markers) :
            /\ MarkerMatches(markers[m], selectedTimes, matchName)
            /\ \A k \in 1..(m - 1) : ~MarkerMatches(markers[k], selectedTimes, matchName)
    ELSE 0

\* step 1 of the easing decision: <<spring easing>> from the markers, or <<>>
SpringFromMarkers(lyr, pinfo) ==
    LET sel   == SelectedKeys(pinfo.keys)
        times == [i \in 1..Len(sel) |-> sel[i].time]
        m     == FirstMatchingMarker(lyr.marker, times, pinfo.matchName)
    IN  IF m # 0
        THEN << SpringEasing(Backfill(
                   findSpringForProperty(parseAllSpringsFromMarker(lyr.marker[m].comment),
                                         pinfo.matchName)[1])) >>
        ELSE <<>>

\* an easing decision that tries the keyframes' bezier before the markers
DetectEasingBezierFirst(lyr, pinfo) ==
    LET bez == extractCubicBezier(pinfo.keys)
        spr == SpringFromMarkers(lyr, pinfo)
    IN  IF bez # <<>> THEN BezierEasing(bez)
        ELSE IF spr # <<>> THEN spr[1]
        ELSE LinearEasing

\* the baked-spring step with its switch on
BakedSpringDetectionOn == TRUE

\* the switch of the baked-spring step: "if (false && !springFound && ...)"
BakedSpringDetection == FALSE

\* step 2 of the easing decision: <<bakedSpring>> or <<>>
BakedSpringStep(pinfo) ==
    LET sel == SelectedKeys(pinfo.keys)
    IN  IF BakedSpringDetection /\ Len(sel) >= 2
        THEN detectBakedSpringInRange(pinfo.keys, sel[1].time, sel[Len(sel)].time)
        ELSE <<>>

\* the easing decision of extractAnimationData: marker spring, then baked spring
\* (switched off), then cubic bezier, then linear
DetectEasing(lyr, pinfo) ==
    LET spr   == SpringFromMarkers(lyr, pinfo)
        baked == BakedSpringStep(pinfo)
        bez   == extractCubicBezier(pinfo.keys)
    IN  IF spr # <<>> THEN spr[1]
        ELSE IF baked # <<>> THEN BakedEasing(baked[1])
        ELSE IF bez # <<>> THEN BezierEasing(bez)
        ELSE LinearEasing

extractAnimationData(lyr, pinfo, was, m) ==
    LET sel == SelectedKeys(pinfo.keys)
    IN  [property |-> pinfo.name,
         hasKeyframes |-> TRUE,
         easing |-> DetectEasing(lyr, pinfo),
         timing |-> IF Len(sel) >= 2
                    THEN [delay |-> roundMs(sel[1].time - was),
                          duration |-> roundMs(sel[Len(sel)].time - sel[1].time)]
                    ELSE [delay |-> 0, duration |-> 0],
         values |-> extractPropertyValues(pinfo, m)]

(***************************************************************************)
(* Bridge server: processAnimations splits a combined Position entry into  *)
(* "Position X" and "Position Y".  It reads the values of the JSON         *)
(* document, that is startValue and endValue as the exporter wrote them.   *)
(* Entries of other properties are carried over as they are.               *)
(***************************************************************************)
AxisEntry(animation, name, axis) ==
    [property |-> name,
     values |-> [startValue |-> <<animation.values.startValue[axis]>>,
                 endValue |-> <<animation.values.endValue[axis]>>,
                 change |-> <<animation.values.endValue[axis]
                                - animation.values.startValue[axis]>>],
     timing |-> animation.timing,
     easing |-> animation.easing]

SplitOne(animation) ==
    IF /\ ToLowerCase(Chars(animation.property)) = Chars("position")
       /\ Len(animation.values.startValue) = 2
       /\ Len(animation.values.endValue) = 2
    THEN LET changeX == animation.values.endValue[1] - animation.values.startValue[1]
             changeY == animation.values.endValue[2] - animation.values.startValue[2]
         IN  (IF Abs(changeX) > Half THEN <<AxisEntry(animation, "Position X", 1)>> ELSE <<>>)
             \o (IF Abs(changeY) > Half THEN <<AxisEntry(animation, "Position Y", 2)>> ELSE <<>>)
    ELSE <<animation>>

RECURSIVE processAnimations(_)
processAnimations(list) ==
    IF list = <<>> THEN <<>>
    ELSE SplitOne(Head(list)) \o processAnimations(Tail(list))

(***************************************************************************)
(* Figma plugin: easingsMatch and groupPositionAnimations.  The result     *)
(* type is (AnimationProperty | AnimationProperty[])[]; an item is <<a>>   *)
(* for one animation and <<x, y>> for a grouped pair.                      *)
(***************************************************************************)
Epsilon == 10           \* const epsilon = 0.01, in thousandths

\* Math.abs(a.q - b.q) < epsilon; a missing parameter makes the difference NaN
ParamClose(aCustom, bCustom, q) ==
    /\ q \in DOMAIN aCustom
    /\ q \in DOMAIN bCustom
    /\ Less64(AbsDiff64(Number(aCustom[q]), Number(bCustom[q])), Number(Epsilon))

SpringPreset(e) == IF e.spring = <<>> THEN NoValue ELSE e.spring[1].preset
SpringCustom(e) == IF e.spring = <<>> THEN <<>> ELSE e.spring[1].custom

\* an easing comparison that takes any two easings of one type for equal
SameTypeMatch(a, b) == a.type = b.type

easingsMatch(a, b) ==
    IF a.type # b.type THEN FALSE
    ELSE IF a.type = "spring" THEN
        IF SpringCustom(a) # <<>> /\ SpringCustom(b) # <<>>
        THEN \A q \in SpringParams : ParamClose(SpringCustom(a)[1], SpringCustom(b)[1], q)
        ELSE SpringPreset(a) = SpringPreset(b)
    ELSE IF a.type = "cubic-bezier" THEN a.cubicBezier = b.cubicBezier
    ELSE TRUE

AsItems(list) == [i \in 1..Len(list) |-> <<list[i]>>]

\* animations.find(a => a.property === name): index of the first such item, 0 if none;
\* a grouped pair is an array and has no property
FindProperty(items, name) ==
    LET Is(i) == Len(items[i]) = 1 /\ items[i][1].property = name
    IN  IF \E i \in 1..Len(items) : Is(i)
        THEN CHOOSE i \in 1..Len(items) : Is(i) /\ \A k \in 1..(i - 1) : ~Is(k)
        ELSE 0

RECURSIVE Without(_, _, _)
Without(items, i, drop) ==
    IF i > Len(items) THEN <<>>
    ELSE (IF i \in drop THEN <<>> ELSE <<items[i]>>) \o Without(items, i + 1, drop)

groupPositionAnimations(items) ==
    LET ix == FindProperty(items, "Position X")
        iy == FindProperty(items, "Position Y")
    IN  IF /\ ix # 0 /\ iy # 0
           /\ items[ix][1].timing.delay = items[iy][1].timing.delay
           /\ easingsMatch(items[ix][1].easing, items[iy][1].easing)
        THEN << <<items[ix][1], items[iy][1]>> >> \o Without(items, 1, {ix, iy})
        ELSE items

(***************************************************************************)
(* Figma plugin: the natural-language templates.  A description is the     *)
(* string the template returns; the en and em dashes of the templates are  *)
(* written "-".  Numbers are whole or half units here, and a number in a   *)
(* template literal is rendered the way JavaScript renders it ("100",      *)
(* "0.5", "-90").                                                          *)
(***************************************************************************)
NumberToString(t) ==
    (IF t < 0 THEN "-" ELSE "") \o ToString(Abs(t) \div Tick)
        \o (IF Abs(t) % Tick = 0 THEN "" ELSE ".5")

\* a template array that asks the fallback first
TemplatesGenericFirst ==
    << "genericTemplate", "fitToShapeTemplate", "cornerRadiusTemplate", "alphaTemplate",
       "scaleTemplate", "positionTemplate", "rotationTemplate" >>

\* the priority-ordered template array
TEMPLATES ==
    << "fitToShapeTemplate", "cornerRadiusTemplate", "alphaTemplate", "scaleTemplate",
       "positionTemplate", "rotationTemplate", "genericTemplate" >>

\* which of the two blocks of the position template applies
PositionAxis(property) == IF LowerNameHas(property, "x") THEN "X" ELSE "Y"

\* a position template with left and right exchanged
PositionMirrored(animation) ==
    LET change     == animation.values.change[1]
        startValue == animation.values.startValue[1]
    IN  IF PositionAxis(animation.property) = "X"
        THEN IF change > 0 THEN "Moves " \o NumberToString(Abs(change)) \o "px from the right"
             ELSE IF change < 0 THEN "Moves " \o NumberToString(Abs(change)) \o "px from the left"
             ELSE "Position X stays at " \o NumberToString(startValue) \o "px"
        ELSE IF change < 0 THEN "Moves up " \o NumberToString(Abs(change)) \o "px"
             ELSE IF change > 0 THEN "Moves down " \o NumberToString(change) \o "px"
             ELSE "Position Y stays at " \o NumberToString(startValue) \o "px"

positionTemplate(animation) ==
    LET change     == animation.values.change[1]
        startValue == animation.values.startValue[1]
    IN  IF PositionAxis(animation.property) = "X"
        THEN IF change > 0 THEN "Moves " \o NumberToString(Abs(change)) \o "px from the left"
             ELSE IF change < 0 THEN "Moves " \o NumberToString(Abs(change)) \o "px from the right"
             ELSE "Position X stays at " \o NumberToString(startValue) \o "px"
        ELSE IF change < 0 THEN "Moves up " \o NumberToString(Abs(change)) \o "px"
             ELSE IF change > 0 THEN "Moves down " \o NumberToString(change) \o "px"
             ELSE "Position Y stays at " \o NumberToString(startValue) \o "px"

\* startPercent, endPercent: the value followed by "%"
Percent(value) == NumberToString(value) \o "%"

\* an opacity template without the second special case
AlphaOneSpecialCase(animation) ==
    LET startValue == animation.values.startValue[1]
        endValue   == animation.values.endValue[1]
    IN  IF startValue = 0 /\ endValue = 100 * Tick THEN "Alpha animates from 0% - 100%"
        ELSE IF startValue = 0 THEN "Fades in to " \o Percent(endValue)
        ELSE IF endValue = 0 THEN "Fades out from " \o Percent(startValue)
        ELSE "Alpha animates from " \o Percent(startValue) \o " - " \o Percent(endValue)

alphaTemplate(animation) ==
    LET startValue == animation.values.startValue[1]
        endValue   == animation.values.endValue[1]
    IN  IF startValue = 0 /\ endValue = 100 * Tick THEN "Alpha animates from 0% - 100%"
        ELSE IF startValue = 100 * Tick /\ endValue = 0 THEN "Alpha animates from 100% - 0%"
        ELSE IF startValue = 0 THEN "Fades in to " \o Percent(endValue)
        ELSE IF endValue = 0 THEN "Fades out from " \o Percent(startValue)
        ELSE "Alpha animates from " \o Percent(startValue) \o " - " \o Percent(endValue)

scaleTemplate(animation) ==
    LET startValue == animation.values.startValue
        endValue   == animation.values.endValue
        Rounded(v) == NumberToString(MathRound(v)) \o "%"
    IN  IF Len(startValue) = 2 /\ startValue[1] = startValue[2]
           /\ Len(endValue) = 2 /\ endValue[1] = endValue[2]
        THEN "Scale animates from " \o Rounded(startValue[1]) \o " - " \o Rounded(endValue[1])
        ELSE IF Len(startValue) = 2 /\ Len(endValue) = 2
        THEN "Scale animates from " \o Rounded(startValue[1]) \o ", " \o Rounded(startValue[2])
                \o " - " \o Rounded(endValue[1]) \o ", " \o Rounded(endValue[2])
        ELSE "Scale animates from " \o Rounded(startValue[1]) \o " - " \o Rounded(endValue[1])

\* a rotation template that calls no change clockwise
RotationZeroClockwise(animation) ==
    LET change  == animation.values.change[1]
        degrees == Abs(MathRound(change))
        axis    == IF LowerNameHas(animation.property, "x") THEN "X "
                   ELSE IF LowerNameHas(animation.property, "y") THEN "Y "
                   ELSE IF LowerNameHas(animation.property, "z") THEN "Z " ELSE ""
    IN  "Rotates " \o axis \o NumberToString(degrees) \o "° "
            \o (IF change >= 0 THEN "clockwise" ELSE "counterclockwise")

rotationTemplate(animation) ==
    LET change    == animation.values.change[1]
        degrees   == Abs(MathRound(change))
        direction == IF change > 0 THEN "clockwise" ELSE "counterclockwise"
        axis      == IF LowerNameHas(animation.property, "x") THEN "X "
                     ELSE IF LowerNameHas(animation.property, "y") THEN "Y "
                     ELSE IF LowerNameHas(animation.property, "z") THEN "Z " ELSE ""
    IN  "Rotates " \o axis \o NumberToString(degrees) \o "° " \o direction

cornerRadiusTemplate(animation) ==
    LET startRounded == MathRound(animation.values.startValue[1])
        endRounded   == MathRound(animation.values.endValue[1])
    IN  IF startRounded = 0 /\ endRounded > 0
        THEN "Corner radius animates from sharp (0px) - rounded ("
                \o NumberToString(endRounded) \o "px)"
        ELSE IF startRounded > 0 /\ endRounded = 0
        THEN "Corner radius animates from rounded (" \o NumberToString(startRounded)
                \o "px) - sharp (0px)"
        ELSE "Corner radius animates from " \o NumberToString(startRounded) \o "px - "
                \o NumberToString(endRounded) \o "px"

FIT_TO_SHAPE_ALIGNMENT ==
    (1 :> "center") @@ (2 :> "center left") @@ (3 :> "center right")
    @@ (5 :> "top center") @@ (6 :> "top left") @@ (7 :> "top right")
    @@ (9 :> "bottom center") @@ (10 :> "bottom left") @@ (11 :> "bottom right")

formatFitToShapeScaleMode(scaleTo) ==
    IF scaleTo = 1 THEN "fit width"
    ELSE IF scaleTo = 2 THEN "fit height"
    ELSE IF scaleTo = 3 THEN "stretch"
    ELSE "no scaling"

generateFitToShapeDescription(fitToShape) ==
    LET alignText == FIT_TO_SHAPE_ALIGNMENT[fitToShape.alignment]
        container == "\"" \o fitToShape.containerLayerName \o "\""
    IN  IF fitToShape.scaleTo = 4
        THEN "Positioned within " \o container \o " - no scaling - aligned " \o alignText
        ELSE IF fitToShape.scaleTo = 3
        THEN "Stretches to fill " \o container \o " - aligned " \o alignText
        ELSE "Scales to " \o formatFitToShapeScaleMode(fitToShape.scaleTo) \o " of "
                \o container \o " - aligned " \o alignText

generateGenericDescription(animation) ==
    LET startValue == animation.values.startValue
        endValue   == animation.values.endValue
    IN  IF Len(startValue) = 2 /\ Len(endValue) = 2
        THEN animation.property \o " animates from ["
                \o NumberToString(startValue[1]) \o ", " \o NumberToString(startValue[2])
                \o "] - [" \o NumberToString(endValue[1]) \o ", "
                \o NumberToString(endValue[2]) \o "]"
        ELSE animation.property \o " animates from " \o NumberToString(startValue[1])
                \o " - " \o NumberToString(endValue[1])

\* the properties a template claims ("Patterns Matched")
CanHandle(template, animation) ==
    LET lower == ToLowerCase(Chars(animation.property))
    IN  CASE template = "fitToShapeTemplate" -> "fitToShape" \in DOMAIN animation
          [] template = "cornerRadiusTemplate" ->
                \/ lower \in { Chars(n) : n \in {"tl", "tr", "bl", "br", "unified radius", "top left",
                                                  "top right", "bottom left", "bottom right"} }
                \/ Contains(lower, Chars("corner")) \/ Contains(lower, Chars("radius"))
          [] template = "alphaTemplate" ->
                Contains(lower, Chars("opacity")) \/ Contains(lower, Chars("alpha"))
          [] template = "scaleTemplate" -> Contains(lower, Chars("scale"))
          [] template = "positionTemplate" -> Contains(lower, Chars("position"))
          [] template = "rotationTemplate" -> Contains(lower, Chars("rotation"))
          [] template = "genericTemplate" -> TRUE

Generate(template, animation) ==
    CASE template = "fitToShapeTemplate" -> generateFitToShapeDescription(animation.fitToShape)
      [] template = "cornerRadiusTemplate" -> cornerRadiusTemplate(animation)
      [] template = "alphaTemplate" -> alphaTemplate(animation)
      [] template = "scaleTemplate" -> scaleTemplate(animation)
      [] template = "positionTemplate" -> positionTemplate(animation)
      [] template = "rotationTemplate" -> rotationTemplate(animation)
      [] template = "genericTemplate" -> generateGenericDescription(animation)

\* the templates are asked in the order of the array; the first that claims the
\* property generates the description: [property, claimedBy, asked, description],
\* asked the templates whose claim was looked at
generateDescription(animation) ==
    LET k == CHOOSE k \in 1..Len(TEMPLATES) :
                /\ CanHandle(TEMPLATES[k], animation)
                /\ \A j \in 1..(k - 1) : ~CanHandle(TEMPLATES[j], animation)
    IN  [property |-> animation.property,
         claimedBy |-> TEMPLATES[k],
         asked |-> SubSeq(TEMPLATES, 1, k),
         description |-> Generate(TEMPLATES[k], animation)]

(***************************************************************************)
(* The stages as steps on one layer.                                       *)
(***************************************************************************)
NoLayer == [marker |-> <<>>]
NoProperty == [name |-> "", matchName |-> <<>>, keys |-> <<>>]

PipeIdle ==
    /\ layer = NoLayer /\ properties = <<>> /\ propInfo = NoProperty
    /\ multiplier = 1 /\ workAreaStart = 0
    /\ animationData = <<>> /\ animationsData = <<>>
    /\ animations = <<>> /\ grouped = <<>>
    /\ regroups = 0 /\ pipePc = "idle"
    /\ fitToShapeData = <<>> /\ descriptions = <<>>

\* "If this layer has Fit to Shape, attach it to the first animation"
WithFitToShape(a, fitToShape) == a @@ [fitToShape |-> fitToShape, isFitToShape |-> TRUE]

\* buildMotionSpecData, one turn of the loop over the layer's properties:
\* animationData = extractAnimationData(...), pushed on the layer's animations array
\* when it has keyframes
ExtractAnimationData ==
    /\ pipePc = "extract"
    /\ properties # <<>>
    /\ propInfo' = Head(properties)
    /\ properties' = Tail(properties)
    /\ animationData' =
          LET extracted == extractAnimationData(layer, propInfo', workAreaStart, multiplier)
          IN  << IF fitToShapeData # <<>> /\ animationsData = <<>>
                 THEN WithFitToShape(extracted, fitToShapeData[1])
                 ELSE extracted >>
    /\ animationsData' = IF animationData'[1].hasKeyframes
                         THEN Append(animationsData, animationData'[1])
                         ELSE animationsData
    /\ pipePc' = IF properties' = <<>> THEN "split" ELSE "extract"
    /\ UNCHANGED <<layer, multiplier, workAreaStart, animations, grouped, regroups,
                   fitToShapeData, descriptions>>

\* the bridge server receives the document
ProcessAnimations ==
    /\ pipePc = "split"
    /\ animations' = processAnimations(animationsData)
    /\ pipePc' = "group"
    /\ UNCHANGED <<layer, properties, propInfo, multiplier, workAreaStart, animationData, animationsData,
                   grouped, regroups, fitToShapeData, descriptions>>

\* the plugin regroups the layer's list
GroupPositionAnimations ==
    /\ pipePc = "group"
    /\ grouped' = groupPositionAnimations(AsItems(animations))
    /\ regroups' = 1
    /\ pipePc' = "grouped"
    /\ UNCHANGED <<layer, properties, propInfo, multiplier, workAreaStart, animationData, animationsData,
                   animations, fitToShapeData, descriptions>>

MaxRegroups == 2

\* the regrouper run once more, on its own result
RegroupAgain ==
    /\ pipePc = "grouped"
    /\ regroups < MaxRegroups
    /\ grouped' = groupPositionAnimations(grouped)
    /\ regroups' = regroups + 1
    /\ UNCHANGED <<layer, properties, propInfo, multiplier, workAreaStart, animationData, animationsData,
                   animations, pipePc, fitToShapeData, descriptions>>

\* the plugin describes each entry of the layer's list
GenerateDescriptions ==
    /\ pipePc = "group"
    /\ descriptions' = [i \in 1..Len(animations) |-> generateDescription(animations[i])]
    /\ pipePc' = "described"
    /\ UNCHANGED <<layer, properties, propInfo, multiplier, workAreaStart, animationData, animationsData,
                   animations, grouped, regroups, fitToShapeData>>

(***************************************************************************)
(* Figma plugin: detectStaggeredAnimations.  Delays, durations and value   *)
(* changes are whole milliseconds, pixels or percents here.                *)
(***************************************************************************)
DurationTolerance == 10
ChangeTolerance == 5
OffsetTolerance == 5

\* "Animation Matching Rules": same property names, same easing type and parameters,
\* same duration within 10 ms, same value change within 5
AnimationsMatch(a, b) ==
    /\ a.property = b.property
    /\ a.easing = b.easing
    /\ Abs(a.timing.duration - b.timing.duration) < DurationTolerance
    /\ Abs(a.values.change - b.values.change) < ChangeTolerance

allAnimationsMatch(as, bs) ==
    /\ Len(as) = Len(bs)
    /\ \A i \in 1..Len(as) : AnimationsMatch(as[i], bs[i])

\* layers.filter(...) for one seed layer
Candidates(list, seed) ==
    SelectSeq(list, LAMBDA candidate :
        /\ Len(candidate.animations) = Len(seed.animations)
        /\ allAnimationsMatch(seed.animations, candidate.animations))

\* a threshold of two layers instead of three
MinPair == 3 - 1

\* Rule 4: "Need at least 3 items to form stagger"
MinStaggerLayers == 3

\* a turn of the loop that does not look at the delays of the candidates
GroupOfSeedAnyDelays(list, seed) ==
    IF Len(seed.animations) < 2 THEN <<>>
    ELSE LET candidates == Candidates(list, seed)
         IN  IF Len(candidates) >= MinStaggerLayers
             THEN << [layers |-> candidates,
                      delayOffset |-> candidates[2].animations[1].timing.delay
                                        - candidates[1].animations[1].timing.delay,
                      referenceLayer |-> candidates[1]] >>
             ELSE <<>>

\* one turn of the loop over the layers: <<the group pushed>> or <<>>
GroupOfSeed(list, seed) ==
    IF Len(seed.animations) < 2 THEN <<>>
    ELSE LET candidates == Candidates(list, seed)
         IN  IF Len(candidates) >= MinStaggerLayers
             THEN LET first       == candidates[1].animations[1].timing.delay
                      delayOffset == candidates[2].animations[1].timing.delay - first
                      uniformOffset ==
                          \A i \in 1..Len(candidates) :
                              i = 1 \/ Abs((first + delayOffset * (i - 1))
                                            - candidates[i].animations[1].timing.delay)
                                        < OffsetTolerance
                  IN  IF uniformOffset
                      THEN << [layers |-> candidates, delayOffset |-> delayOffset,
                               referenceLayer |-> candidates[1]] >>
                      ELSE <<>>
             ELSE <<>>

RECURSIVE GroupsFrom(_, _)
GroupsFrom(list, i) ==
    IF i > Len(list) THEN <<>>
    ELSE GroupOfSeed(list, list[i]) \o GroupsFrom(list, i + 1)

detectStaggeredAnimations(list) == GroupsFrom(list, 1)

StaggerIdle == layers = <<>> /\ groups = <<>> /\ staggerPc = "idle"

DetectStaggeredAnimations ==
    /\ staggerPc = "detect"
    /\ groups' = detectStaggeredAnimations(layers)
    /\ staggerPc' = "done"
    /\ UNCHANGED layers

\* the layers of a document: up to MaxLayers of them, each fading and scaling or only
\* fading, its first animation delayed by 0, 50 or 100 ms
MaxLayers == 4
StaggerDelays == {0, 50, 100}
StaggerDurations == {400, 450}

Fade(delay, duration) ==
    [property |-> "Opacity", easing |-> "linear",
     timing |-> [delay |-> delay, duration |-> duration], values |-> [change |-> 100]]
Grow(delay) ==
    [property |-> "Scale", easing |-> "linear",
     timing |-> [delay |-> delay, duration |-> 400], values |-> [change |-> 20]]

LayerAnimations ==
    { << Fade(d, t) >> : d \in StaggerDelays, t \in StaggerDurations }
    \cup { << Fade(d, t), Grow(d) >> : d \in StaggerDelays, t \in StaggerDurations }

StaggerInit ==
    /\ \E n \in 1..MaxLayers :
          layers \in { [i \in 1..n |-> [name |-> i, animations |-> k[i]]] :
                          k \in [1..n -> LayerAnimations] }
    /\ groups = <<>>
    /\ staggerPc = "detect"

(***************************************************************************)
(* buildMotionSpecData.  A layer of the composition is                     *)
(*   [index, name, parent, selected, type, props, transform, mask]         *)
(* parent: the parent's index or 0; type: what getLayerType answers;       *)
(* props: the names findPropertiesWithSelectedKeyframes finds; transform:  *)
(* which of position, rotation, scale have keyframes; mask: the name       *)
(* contains "mask".  The layers carry no Fit to Shape effect, so           *)
(* detectFitToShapeEffect answers null throughout.  An animation entry is  *)
(* cut down to its property name: what extractAnimationData puts in it is  *)
(* the subject of the sections above.                                      *)
(*                                                                         *)
(* After Effects may throw when the script reads a property.  A fault is   *)
(* the place where it does: <<"extract", i, j>>, extractAnimationData of   *)
(* the j-th property of layer i; <<"ancestor", i>>, findAnimatingAncestor  *)
(* of layer i (it reads the ancestors' transform groups outside any try).  *)
(* getLayerType, detectFitToShapeEffect, findPropertiesWithSelectedKey-    *)
(* frames and findChildLayers catch their own exceptions.                  *)
(***************************************************************************)
NoFault == <<"none">>

Throws(f, site) == f = site

Entry(name, anims, type, parenting) ==
    [layerName |-> name, animations |-> anims, layerType |-> type, parenting |-> parenting]

AnimationOf(name) == [property |-> name, hasKeyframes |-> TRUE]

\* the loop "for each selected property: try { push(extractAnimationData) } catch {}":
\* a property that throws is left out, the others stay
RECURSIVE ExtractEach(_, _, _, _)
ExtractEach(cl, f, lyr, j) ==
    IF j > Len(lyr.props) THEN <<>>
    ELSE (IF Throws(f, <<"extract", lyr.index, j>>) THEN <<>> ELSE <<AnimationOf(lyr.props[j])>>)
         \o ExtractEach(cl, f, lyr, j + 1)

\* the loop "try { for each selected property: push(extractAnimationData) } catch {}":
\* the first property that throws ends the loop, what was pushed stays
RECURSIVE ExtractUntilThrow(_, _, _, _)
ExtractUntilThrow(cl, f, lyr, j) ==
    IF j > Len(lyr.props) \/ Throws(f, <<"extract", lyr.index, j>>) THEN <<>>
    ELSE <<AnimationOf(lyr.props[j])>> \o ExtractUntilThrow(cl, f, lyr, j + 1)

\* the index of the nearest ancestor with an animating transform, 0 if none
RECURSIVE AnimatingAncestorFrom(_, _)
AnimatingAncestorFrom(cl, current) ==
    IF current = 0 THEN 0
    ELSE IF cl[current].transform # <<>> THEN current
    ELSE AnimatingAncestorFrom(cl, cl[current].parent)

\* layerData.parenting as the main loop sets it: <<>> or <<[parentName, animatingProperties, via]>>
\* (via 0: the ancestor is the direct parent)
findAnimatingAncestor(cl, lyr) ==
    LET a == AnimatingAncestorFrom(cl, lyr.parent)
    IN  IF a = 0 THEN <<>>
        ELSE << [parentName |-> cl[a].name, animatingProperties |-> cl[a].transform,
                 via |-> IF a # lyr.parent THEN cl[lyr.parent].name ELSE 0] >>

IsSelected(sel, i) == \E s \in 1..Len(sel) : sel[s] = i

\* the selected, unmasked layers parented to parentLayer, in layer order, when
\* parentLayer's transform animates
findChildLayers(cl, sel, parentLayer) ==
    IF parentLayer.transform = <<>> THEN <<>>
    ELSE SelectSeq(cl, LAMBDA l :
            l.parent = parentLayer.index /\ IsSelected(sel, l.index) /\ ~l.mask)

RECURSIVE ChildEntries(_, _, _, _, _)
ChildEntries(cl, f, parentLayer, children, c) ==
    IF c > Len(children) THEN <<>>
    ELSE << Entry(children[c].name, ExtractUntilThrow(cl, f, children[c], 1), "parented",
                  << [parentName |-> parentLayer.name,
                      animatingProperties |-> parentLayer.transform, via |-> 0] >>) >>
         \o ChildEntries(cl, f, parentLayer, children, c + 1)

\* one turn of the first loop over selectedLayers: the entries it pushes on
\* motionSpec.layers and the children it marks in processedAsChild
LayerTurn(cl, sel, f, i, processedAsChild) ==
    LET lyr == cl[sel[i]]
        nothing == [layers |-> <<>>, marked |-> {}]
    IN  IF lyr.index \in processedAsChild THEN nothing
        ELSE IF lyr.parent # 0 /\ Throws(f, <<"ancestor", lyr.index>>)
        THEN nothing    \* catch (layerError): nothing of the layer was pushed yet
        ELSE
        LET anims     == ExtractEach(cl, f, lyr, 1)
            parenting == IF lyr.parent # 0 THEN findAnimatingAncestor(cl, lyr) ELSE <<>>
            children  == findChildLayers(cl, sel, lyr)
            own       == IF lyr.parent # 0 /\ lyr.mask THEN <<>>
                         ELSE << Entry(lyr.name, anims, lyr.type, parenting) >>
        IN  IF Len(anims) > 0
            THEN [layers |-> own \o ChildEntries(cl, f, lyr, children, 1),
                  marked |-> { children[c].index : c \in 1..Len(children) }]
            ELSE nothing

\* the first loop over selectedLayers: [layers, processedAsChild] after turn i and the
\* turns that follow
RECURSIVE MainLoop(_, _, _, _, _, _)
MainLoop(cl, sel, f, i, out, processedAsChild) ==
    IF i > Len(sel) THEN [layers |-> out, processedAsChild |-> processedAsChild]
    ELSE LET turn == LayerTurn(cl, sel, f, i, processedAsChild)
         IN  MainLoop(cl, sel, f, i + 1, out \o turn.layers, processedAsChild \cup turn.marked)

\* the second loop: selected, parented layers that are not in the document yet
RECURSIVE SecondPass(_, _, _, _, _, _)
SecondPass(cl, sel, f, i, out, processedAsChild) ==
    IF i > Len(sel) THEN out
    ELSE LET lyr == cl[sel[i]]
             alreadyAdded == \E k \in 1..Len(out) : out[k].layerName = lyr.name
         IN  IF /\ lyr.index \notin processedAsChild
                /\ lyr.parent # 0
                /\ ~alreadyAdded
                /\ cl[lyr.parent].transform # <<>>
             THEN SecondPass(cl, sel, f, i + 1,
                     Append(out, Entry(lyr.name, ExtractUntilThrow(cl, f, lyr, 1), "parented",
                                       << [parentName |-> cl[lyr.parent].name,
                                           animatingProperties |-> cl[lyr.parent].transform,
                                           via |-> 0] >>)),
                     processedAsChild)
             ELSE SecondPass(cl, sel, f, i + 1, out, processedAsChild)

\* motionSpec.layers of the returned document
buildMotionSpecData(cl, sel, f) ==
    LET first == MainLoop(cl, sel, f, 1, <<>>, {})
    IN  SecondPass(cl, sel, f, 1, first.layers, first.processedAsChild)

\* the returned document: the layers, and metadata.timestamp, new Date().toString()
\* at the time of the run (the composition block of the metadata is
\* BuildCompositionMetadata's)
MotionSpecDocument(cl, sel, f, t) ==
    [layers |-> buildMotionSpecData(cl, sel, f), timestamp |-> t]

BuildIdle ==
    /\ compLayers = <<>> /\ selectedLayers = <<>> /\ fault = NoFault
    /\ motionSpec = <<>> /\ buildPc = "idle"
    /\ now = 0 /\ earlier = <<>> /\ result = <<>>

\* the clock runs to MaxClock seconds
MaxClock == 1

\* buildMotionSpecData(comp, selectedLayers) called at time t: every exception of
\* the build is caught inside it
BuildMotionSpecData ==
    /\ buildPc = "build"
    /\ selectedLayers # <<>>
    /\ \E t \in now..MaxClock :
          /\ now' = t
          /\ motionSpec' = << MotionSpecDocument(compLayers, selectedLayers, fault, t) >>
    /\ buildPc' = "returned"
    /\ UNCHANGED <<compLayers, selectedLayers, fault, earlier, result>>

\* a second call on the same composition and selection, the same reads throwing
BuildMotionSpecDataAgain ==
    /\ buildPc = "returned"
    /\ result = <<>>
    /\ earlier = <<>>
    /\ earlier' = motionSpec
    /\ \E t \in now..MaxClock :
          /\ now' = t
          /\ motionSpec' = << MotionSpecDocument(compLayers, selectedLayers, fault, t) >>
    /\ UNCHANGED <<compLayers, selectedLayers, fault, buildPc, result>>

\* what an entry point hands back to the panel (JSON.stringify({success: ..., error: ...}))
Answer(entry, success, error) == [entry |-> entry, success |-> success, error |-> error]

\* the "Copy" button.  A composition is active.  clipboardSuccess: pbcopy and
\* pbpaste did their work.
copyMotionSpecToClipboard ==
    /\ buildPc = "build"
    /\ buildPc' = "returned"
    /\ IF selectedLayers = <<>>
       THEN /\ result' = << Answer("copy", FALSE, "No layers selected") >>
            /\ UNCHANGED <<motionSpec, now>>
       ELSE \E t \in now..MaxClock, clipboardSuccess \in BOOLEAN :
              LET motionSpecData == MotionSpecDocument(compLayers, selectedLayers, fault, t)
              IN  /\ now' = t
                  /\ motionSpec' = << motionSpecData >>
                  /\ result' = IF Len(motionSpecData.layers) = 0
                               THEN << Answer("copy", FALSE, "No animation data found") >>
                               ELSE IF clipboardSuccess
                               THEN << Answer("copy", TRUE, "") >>
                               ELSE << Answer("copy", FALSE, "Clipboard operation failed") >>
    /\ UNCHANGED <<compLayers, selectedLayers, fault, earlier>>

\* the "Export" button.  A composition is active.  written: the file exists
\* after sendToFigmaViaFile wrote it.  countSelectedAnimations catches its own
\* exceptions and only feeds the counts of the answer.
exportMotionSpecToFigma ==
    /\ buildPc = "build"
    /\ buildPc' = "returned"
    /\ IF selectedLayers = <<>>
       THEN /\ result' = << Answer("export", FALSE, "No layers selected") >>
            /\ UNCHANGED <<motionSpec, now>>
       ELSE \E t \in now..MaxClock, written \in BOOLEAN :
              /\ now' = t
              /\ motionSpec' = << MotionSpecDocument(compLayers, selectedLayers, fault, t) >>
              /\ result' = IF written
                           THEN << Answer("export", TRUE, "") >>
                           ELSE << Answer("export", FALSE, "Failed to write motion spec file") >>
    /\ UNCHANGED <<compLayers, selectedLayers, fault, earlier>>

(***************************************************************************)
(* Inputs of the build: up to MaxCompLayers layers, each parented to none  *)
(* or to a layer above it, selected in layer order or in reverse.          *)
(***************************************************************************)
MaxCompLayers == 3

LayerKinds ==
    { [selected |-> TRUE,  props |-> <<"Position">>, transform |-> <<"position">>, mask |-> FALSE],
      [selected |-> TRUE,  props |-> <<"Opacity">>, transform |-> <<>>, mask |-> FALSE],
      [selected |-> TRUE,  props |-> <<"Position", "Opacity">>, transform |-> <<"position">>, mask |-> FALSE],
      [selected |-> TRUE,  props |-> <<>>, transform |-> <<>>, mask |-> FALSE],
      [selected |-> TRUE,  props |-> <<"Opacity">>, transform |-> <<>>, mask |-> TRUE],
      [selected |-> FALSE, props |-> <<>>, transform |-> <<"position">>, mask |-> FALSE] }

LayerOf(i, kind, parent) ==
    [index |-> i, name |-> i, parent |-> parent, selected |-> kind.selected, type |-> "shape",
     props |-> kind.props, transform |-> kind.transform, mask |-> kind.mask]

\* the parents of n layers: none (0) or a layer above
ParentChoices(n) == { q \in [1..n -> 0..(n - 1)] : \A i \in 1..n : q[i] < i }

RECURSIVE Reverse(_)
Reverse(q) == IF q = <<>> THEN <<>> ELSE Append(Reverse(Tail(q)), Head(q))

SelectedIndices(cl) ==
    LET chosen == SelectSeq(cl, LAMBDA l : l.selected)
    IN  [s \in 1..Len(chosen) |-> chosen[s].index]

\* the places of cl where a read can throw
FaultSites(cl) ==
    { <<"extract", i, j>> : i \in 1..Len(cl), j \in 1..2 }
    \cup { <<"ancestor", i>> : i \in 1..Len(cl) }

Reads(cl, f) ==
    \/ f = NoFault
    \/ f[1] = "extract" /\ cl[f[2]].selected /\ f[3] <= Len(cl[f[2]].props)
    \/ f[1] = "ancestor" /\ cl[f[2]].selected /\ cl[f[2]].parent # 0

BuildInit ==
    /\ \E n \in 1..MaxCompLayers :
          \E k \in [1..n -> LayerKinds], par \in ParentChoices(n) :
              compLayers = [i \in 1..n |-> LayerOf(i, k[i], par[i])]
    /\ selectedLayers \in { SelectedIndices(compLayers), Reverse(SelectedIndices(compLayers)) }
    /\ fault \in { f \in FaultSites(compLayers) \cup {NoFault} : Reads(compLayers, f) }
    /\ motionSpec = <<>>
    /\ buildPc = "build"
    /\ now = 0 /\ earlier = <<>> /\ result = <<>>

(***************************************************************************)
(* Inputs of the easing decision: a Position property with two or three    *)
(* keyframes, and a layer with up to MaxMarkers markers.                   *)
(***************************************************************************)
Ms(n) == n * MsTick

Key(t, sel, val, interp, ease) ==
    [time |-> t, selected |-> sel, value |-> val,
     inInterp |-> interp, outInterp |-> interp, inEase |-> ease, outEase |-> ease]

\* keyInTemporalEase / keyOutTemporalEase: one [influence, speed] per dimension
Eases == { <<>>, << [influence |-> 33, speed |-> 0] >>, << [influence |-> 80, speed |-> 10] >> }
Interps == {"BEZIER", "LINEAR"}

PositionMatchName == <<"ADBE Position">>

\* lines of marker comments
NameLine(text) == [kind |-> "name", text |-> text, params |-> <<>>, path |-> <<>>]
ParamsLine(f) == [kind |-> "params", text |-> "", params |-> f, path |-> <<>>]
PropertyLine(path) == [kind |-> "property", text |-> "", params |-> <<>>, path |-> path]
TextLine == [kind |-> "text", text |-> "", params |-> <<>>, path |-> <<>>]

MarkerComments ==
    { <<>>,                                                         \* no comment
      << TextLine >>,                                               \* a note, no spring
      << NameLine("Standard Spring") >>,                            \* for any property
      << NameLine("Custom"),
         ParamsLine([stiffness |-> 210000, damping |-> 20000]),
         PropertyLine(PositionMatchName) >>,                        \* old format, exact
      << NameLine("Fast Spring"),
         ParamsLine([stiffness |-> 300000, damping |-> 34640, dampingRatio |-> 1000, mass |-> 0]),
         PropertyLine(<<"4", "1", "2">> \o PositionMatchName) >>,   \* new format, by path
      << NameLine("Slow Spring"), PropertyLine(<<"ADBE Opacity">>) >>,   \* another property's
      << NameLine("Bouncy Spring"), ParamsLine([stiffness |-> 200000]),
         PropertyLine(<<"ADBE Opacity">>),
         NameLine("Gentle Spring"), PropertyLine(PositionMatchName) >> }

\* before the first keyframe, on it, between keyframes, after the last
MarkerTimes == { Ms(0), Ms(100), Ms(300), Ms(900) }
MaxMarkers == 2

RECURSIVE SeqsUpTo(_, _)
SeqsUpTo(S, n) ==
    IF n = 0 THEN { <<>> }
    ELSE LET shorter == SeqsUpTo(S, n - 1)
         IN  shorter \cup { Append(q, x) : q \in { r \in shorter : Len(r) = n - 1 }, x \in S }

\* markers of a layer are keyed by time: strictly increasing
Increasing(ms) == \A i \in 1..(Len(ms) - 1) : ms[i].time < ms[i + 1].time

MarkerLists ==
    { ms \in SeqsUpTo([time : MarkerTimes, comment : MarkerComments], MaxMarkers) :
        Increasing(ms) }

\* a baked animation: twenty keyframes 20 ms apart from 100 ms on, the first and
\* the last selected
DenseKeyLists ==
    { [i \in 1..20 |-> Key(Ms(100 + 20 * (i - 1)), i \in {1, 20}, <<Tick * 5 * (i - 1), 0>>, ip, e)] :
        ip \in Interps, e \in Eases }

\* keyframes at 100, 300 and 500 ms; at least the first is selected
EasingKeyLists ==
    { << Key(Ms(100), TRUE, <<0, 0>>, i1, e1),
         Key(Ms(300), s2, <<Tick * 50, 0>>, i2, e2),
         Key(Ms(500), s3, <<Tick * 100, 0>>, "BEZIER", e2) >> :
        i1 \in Interps, i2 \in Interps, e1 \in Eases, e2 \in Eases,
        s2 \in BOOLEAN, s3 \in BOOLEAN }
    \cup DenseKeyLists

EasingInit ==
    /\ layer \in [marker : MarkerLists]
    /\ properties \in { <<p>> : p \in [name : {"Position"}, matchName : {PositionMatchName},
                                        keys : EasingKeyLists] }
    /\ propInfo = NoProperty
    /\ multiplier = 1
    /\ workAreaStart = 0
    /\ animationData = <<>> /\ animationsData = <<>>
    /\ animations = <<>> /\ grouped = <<>>
    /\ regroups = 0
    /\ pipePc = "extract"
    /\ fitToShapeData = <<>> /\ descriptions = <<>>

(***************************************************************************)
(* Inputs of value extraction: one property of a layer, its keyframe       *)
(* values whole units in -1..MaxRaw, under a multiplier in 1..4.           *)
(***************************************************************************)
MaxRaw == 3
RawValues == { Tick * n : n \in (-1)..MaxRaw }

TwoAxisNames == {"Position", "Scale"}
ScalarNames == {"X Position", "Opacity", "Rotation", "Unified Radius", "Width",
                "Stroke Width", "Slider"}

\* the first and the last keyframe carry the values; which keys are selected varies
ValueKeyLists(vals) ==
    { << Key(Ms(100), TRUE, v1, "LINEAR", <<>>),
         Key(Ms(300), FALSE, v1, "LINEAR", <<>>),
         Key(Ms(500), s3, v2, "LINEAR", <<>>) >> : v1 \in vals, v2 \in vals, s3 \in BOOLEAN }

Pairs == { <<x, y>> : x \in RawValues, y \in RawValues }
Singles == { <<x>> : x \in RawValues }

ValueProperties ==
    [name : TwoAxisNames, matchName : {PositionMatchName}, keys : ValueKeyLists(Pairs)]
    \cup [name : ScalarNames, matchName : {PositionMatchName}, keys : ValueKeyLists(Singles)]

ValuesInit ==
    /\ layer = NoLayer
    /\ properties \in { <<p>> : p \in ValueProperties }
    /\ propInfo = NoProperty
    /\ multiplier \in 1..4
    /\ workAreaStart = 0
    /\ animationData = <<>> /\ animationsData = <<>>
    /\ animations = <<>> /\ grouped = <<>>
    /\ regroups = 0
    /\ pipePc = "extract"
    /\ fitToShapeData = <<>> /\ descriptions = <<>>

(***************************************************************************)
(* Inputs of regrouping: a layer with one or two Position properties (the  *)
(* layer transform's, and a shape group transform's), each with its own    *)
(* keyframes, and one spring marker between the keyframes.                 *)
(***************************************************************************)
VectorPositionMatchName == <<"ADBE Vector Position">>

FourParams(k, c) == [stiffness |-> k, damping |-> c, dampingRatio |-> 1000, mass |-> 1000]

\* a marker comment naming a spring for each of the two properties
TwoSprings(name1, params1, name2, params2) ==
    << NameLine(name1) >> \o (IF params1 = <<>> THEN <<>> ELSE << ParamsLine(params1[1]) >>)
        \o << PropertyLine(PositionMatchName) >>
    \o << NameLine(name2) >> \o (IF params2 = <<>> THEN <<>> ELSE << ParamsLine(params2[1]) >>)
        \o << PropertyLine(VectorPositionMatchName) >>

RegroupComments ==
    { << NameLine("Standard Spring") >>,
      TwoSprings("Standard Spring", <<>>, "Fast Spring", <<>>),
      TwoSprings("Custom", <<FourParams(175000, 26460)>>, "Custom", <<>>),
      TwoSprings("Custom", <<FourParams(175000, 26460)>>, "Custom", <<FourParams(175005, 26460)>>),
      TwoSprings("Custom", <<FourParams(175000, 26460)>>, "Custom", <<FourParams(175010, 26460)>>),
      TwoSprings("Custom", <<FourParams(175000, 26460)>>, "Custom", <<FourParams(176000, 26460)>>),
      TwoSprings("Custom", <<FourParams(175000, 26460)>>, "Custom", <<FourParams(175000, 26480)>>),
      TwoSprings("Custom", <<[stiffness |-> 175000, damping |-> 26460]>>,
                 "Custom", <<[stiffness |-> 175000, damping |-> 26460]>>) }

RegroupMarkerLists ==
    { <<>> } \cup { << [time |-> Ms(300), comment |-> c] >> : c \in RegroupComments }

\* two selected keyframes: the first at 100 or 150 ms, the last at 500 or 600 ms, the
\* move (dx, dy) in whole units
MoveX == {0, Tick * 100}
MoveY == {0, Tick * 50}
FirstKeyTimes == { Ms(100), Ms(150) }
LastKeyTimes == { Ms(500), Ms(600) }
RegroupEases == { <<>>, << [influence |-> 33, speed |-> 0] >>, << [influence |-> 80, speed |-> 10] >> }

RegroupKeyLists ==
    { << Key(t, TRUE, <<0, 0>>, IF e = <<>> THEN "LINEAR" ELSE "BEZIER", e),
         Key(u, TRUE, <<dx, dy>>, IF e = <<>> THEN "LINEAR" ELSE "BEZIER", e) >> :
        t \in FirstKeyTimes, u \in LastKeyTimes, dx \in MoveX, dy \in MoveY, e \in RegroupEases }

LayerPositions == [name : {"Position"}, matchName : {PositionMatchName}, keys : RegroupKeyLists]
GroupPositions == [name : {"Position"}, matchName : {VectorPositionMatchName}, keys : RegroupKeyLists]

RegroupInit ==
    /\ layer \in [marker : RegroupMarkerLists]
    /\ properties \in { <<p>> : p \in LayerPositions }
                        \cup { <<p, q>> : p \in LayerPositions, q \in GroupPositions }
    /\ propInfo = NoProperty
    /\ multiplier = 1
    /\ workAreaStart = 0
    /\ animationData = <<>> /\ animationsData = <<>>
    /\ animations = <<>> /\ grouped = <<>>
    /\ regroups = 0
    /\ pipePc = "extract"
    /\ fitToShapeData = <<>> /\ descriptions = <<>>

(***************************************************************************)
(* Specifications, one per component.                                      *)
(***************************************************************************)
InitScale == ScaleInit /\ BezIdle /\ PipeIdle /\ StaggerIdle /\ BuildIdle
NextScale ==
    \/ \E index \in 0..(Len(DropdownItems) - 1) : ScaleDropdownOnChange(index) /\ UNCHANGED <<bezVars, pipeVars, staggerVars, buildVars>>
    \/ BuildCompositionMetadata /\ UNCHANGED <<bezVars, pipeVars, staggerVars, buildVars>>
SpecScale == InitScale /\ [][NextScale]_vars

InitBezier == BezInit /\ ScaleIdle /\ PipeIdle /\ StaggerIdle /\ BuildIdle
NextBezier == MatchCubicBezier /\ UNCHANGED <<scaleVars, pipeVars, staggerVars, buildVars>>
SpecBezier == InitBezier /\ [][NextBezier]_vars

InitEasing == EasingInit /\ ScaleIdle /\ BezIdle /\ StaggerIdle /\ BuildIdle
NextEasing == ExtractAnimationData /\ UNCHANGED <<scaleVars, bezVars, staggerVars, buildVars>>
SpecEasing == InitEasing /\ [][NextEasing]_vars

InitStagger == StaggerInit /\ ScaleIdle /\ BezIdle /\ PipeIdle /\ BuildIdle
NextStagger == DetectStaggeredAnimations /\ UNCHANGED <<scaleVars, bezVars, pipeVars, buildVars>>
SpecStagger == InitStagger /\ [][NextStagger]_vars

InitBuild == BuildInit /\ ScaleIdle /\ BezIdle /\ PipeIdle /\ StaggerIdle
NextBuild ==
    \/ BuildMotionSpecData /\ UNCHANGED <<scaleVars, bezVars, pipeVars, staggerVars>>
    \/ BuildMotionSpecDataAgain /\ UNCHANGED <<scaleVars, bezVars, pipeVars, staggerVars>>
    \/ copyMotionSpecToClipboard /\ UNCHANGED <<scaleVars, bezVars, pipeVars, staggerVars>>
    \/ exportMotionSpecToFigma /\ UNCHANGED <<scaleVars, bezVars, pipeVars, staggerVars>>
SpecBuild == InitBuild /\ [][NextBuild]_vars

(***************************************************************************)
(* C1: with at least two selected keyframes, a marker inside the selected  *)
(* time range that yields a spring matching the property makes the easing  *)
(* a spring from the marker, even when the selected keyframes yield a      *)
(* valid cubic-bezier too; a cubic-bezier easing appears only when no      *)
(* spring was found.                                                       *)
(***************************************************************************)
SelectedTimes == [i \in 1..Len(SelectedKeys(propInfo.keys)) |-> SelectedKeys(propInfo.keys)[i].time]

SpringMarkerInRange ==
    \E m \in 1..Len(layer.marker) :
        /\ layer.marker[m].time >= SelectedTimes[1]
        /\ layer.marker[m].time <= SelectedTimes[Len(SelectedTimes)]
        /\ layer.marker[m].comment # <<>>
        /\ findSpringForProperty(parseAllSpringsFromMarker(layer.marker[m].comment),
                                 propInfo.matchName) # <<>>

C1_SpringBeforeBezier ==
    (animationData # <<>> /\ Len(SelectedTimes) >= 2) =>
        /\ SpringMarkerInRange =>
              /\ animationData[1].easing.type = "spring"
              /\ animationData[1].easing.source = "marker"
        /\ animationData[1].easing.type = "cubic-bezier" => ~SpringMarkerInRange

\* a marker spring and a valid bezier on the same selected keyframes: spring
C1_Witness ==
    /\ animationData # <<>>
    /\ Len(SelectedTimes) >= 2
    /\ SpringMarkerInRange
    /\ extractCubicBezier(propInfo.keys) # <<>>
    /\ animationData[1].easing.type = "spring"

InitValues == ValuesInit /\ ScaleIdle /\ BezIdle /\ StaggerIdle /\ BuildIdle
NextValues ==
    \/ ExtractAnimationData /\ UNCHANGED <<scaleVars, bezVars, staggerVars, buildVars>>
    \/ ProcessAnimations /\ UNCHANGED <<scaleVars, bezVars, staggerVars, buildVars>>
SpecValues == InitValues /\ [][NextValues]_vars

(***************************************************************************)
(* Inputs of the descriptions: a layer, with or without a Fit to Shape     *)
(* effect, with one property or with two, the keyframe values among -90,   *)
(* 0, 0.5, 50 and 100 units.                                               *)
(***************************************************************************)
DescribedValues == { Tick * n : n \in {-90, 0, 50, 100} } \cup { Half }

DescribedKeyLists(vals) ==
    { << Key(Ms(100), TRUE, v1, "LINEAR", <<>>), Key(Ms(500), TRUE, v2, "LINEAR", <<>>) >> :
        v1 \in vals, v2 \in vals }

DescribedProperties ==
    [name : {"Position", "Scale"}, matchName : {PositionMatchName},
     keys : DescribedKeyLists({ <<x, y>> : x \in DescribedValues, y \in DescribedValues })]
    \cup [name : {"X Position", "Y Position", "Opacity", "Rotation", "X Rotation", "Z Rotation",
                  "Unified Radius", "Width", "Slider"},
          matchName : {PositionMatchName},
          keys : DescribedKeyLists({ <<x>> : x \in DescribedValues })]

FadeIn ==
    [name |-> "Opacity", matchName |-> PositionMatchName,
     keys |-> << Key(Ms(100), TRUE, <<0>>, "LINEAR", <<>>),
                 Key(Ms(500), TRUE, <<100 * Tick>>, "LINEAR", <<>>) >>]

FitToShapeEffects ==
    { [containerLayerName |-> "Container", alignment |-> 1, scaleTo |-> 1],
      [containerLayerName |-> "Box", alignment |-> 6, scaleTo |-> 3],
      [containerLayerName |-> "Box", alignment |-> 9, scaleTo |-> 4] }

DescribeInit ==
    /\ layer = NoLayer
    /\ properties \in { <<p>> : p \in DescribedProperties }
                        \cup { <<FadeIn, p>> : p \in DescribedProperties }
    /\ propInfo = NoProperty
    /\ multiplier \in 1..2
    /\ workAreaStart = 0
    /\ animationData = <<>> /\ animationsData = <<>>
    /\ animations = <<>> /\ grouped = <<>>
    /\ regroups = 0
    /\ pipePc = "extract"
    /\ fitToShapeData \in { <<>> } \cup { <<f>> : f \in FitToShapeEffects }
    /\ descriptions = <<>>

InitDescribe == DescribeInit /\ ScaleIdle /\ BezIdle /\ StaggerIdle /\ BuildIdle
NextDescribe ==
    \/ ExtractAnimationData /\ UNCHANGED <<scaleVars, bezVars, staggerVars, buildVars>>
    \/ ProcessAnimations /\ UNCHANGED <<scaleVars, bezVars, staggerVars, buildVars>>
    \/ GenerateDescriptions /\ UNCHANGED <<scaleVars, bezVars, staggerVars, buildVars>>
SpecDescribe == InitDescribe /\ [][NextDescribe]_vars

InitRegroup == RegroupInit /\ ScaleIdle /\ BezIdle /\ StaggerIdle /\ BuildIdle
NextRegroup ==
    \/ ExtractAnimationData /\ UNCHANGED <<scaleVars, bezVars, staggerVars, buildVars>>
    \/ ProcessAnimations /\ UNCHANGED <<scaleVars, bezVars, staggerVars, buildVars>>
    \/ GroupPositionAnimations /\ UNCHANGED <<scaleVars, bezVars, staggerVars, buildVars>>
    \/ RegroupAgain /\ UNCHANGED <<scaleVars, bezVars, staggerVars, buildVars>>
SpecRegroup == InitRegroup /\ [][NextRegroup]_vars

(***************************************************************************)
(* C2: no stagger group has fewer than 3 member layers; when no layer has  *)
(* more than one other layer matching it, no group is produced at all.     *)
(***************************************************************************)
\* the layers matching layer i, itself included
MatchingLayers(i) ==
    { j \in 1..Len(layers) : allAnimationsMatch(layers[i].animations, layers[j].animations) }

C2_NoGroupBelowThree ==
    staggerPc = "done" =>
        /\ \A g \in 1..Len(groups) : Len(groups[g].layers) >= 3
        /\ (\A i \in 1..Len(layers) : Cardinality(MatchingLayers(i)) <= 2) => groups = <<>>

\* two matching two-animation layers 50 ms apart and a third that differs: no group
C2_Witness ==
    /\ staggerPc = "done"
    /\ Len(layers) = 3
    /\ Len(layers[1].animations) = 2
    /\ MatchingLayers(1) = {1, 2}
    /\ layers[2].animations[1].timing.delay - layers[1].animations[1].timing.delay = 50
    /\ groups = <<>>

(***************************************************************************)
(* C3: three sibling layers with 2 identical animations each and first     *)
(* delays 0, 50 and 100 ms, plus a 4th sibling that does not match: the    *)
(* detector outputs exactly one group (one for the set, not one per seed   *)
(* layer, hence one note) with delayOffset 50, and the 4th layer is not    *)
(* in it.                                                                  *)
(***************************************************************************)
StaggerScenario ==
    /\ Len(layers) = 4
    /\ \A i \in 1..3 : Len(layers[i].animations) = 2 /\ MatchingLayers(i) = {1, 2, 3}
    /\ \A i \in 1..3 : layers[i].animations[1].timing.delay = 50 * (i - 1)

C3_OneGroupForTheSet ==
    (staggerPc = "done" /\ StaggerScenario) =>
        /\ Len(groups) = 1
        /\ groups[1].delayOffset = 50
        /\ \A k \in 1..Len(groups[1].layers) : groups[1].layers[k].name # 4

(***************************************************************************)
(* C4: "Position X" and "Position Y" are merged into one entry only when   *)
(* both exist on the layer, their delays are exactly equal and their       *)
(* easings are equal within tolerance: springs, each of stiffness,         *)
(* damping, dampingRatio and mass differing by less than 0.01;             *)
(* cubic-beziers, the same string; linear, always.  When a condition       *)
(* fails the list comes back unmerged.                                     *)
(***************************************************************************)
IsMerged(items) == items # <<>> /\ Len(items[1]) = 2

FirstX == FindProperty(AsItems(animations), "Position X")
FirstY == FindProperty(AsItems(animations), "Position Y")

\* every one of the four parameters is there on both sides and differs by less than 0.01
FourWithinHundredth(a, b) ==
    /\ SpringCustom(a) # <<>> /\ SpringCustom(b) # <<>>
    /\ \A q \in SpringParams :
          /\ q \in DOMAIN SpringCustom(a)[1]
          /\ q \in DOMAIN SpringCustom(b)[1]
          /\ Abs(SpringCustom(a)[1][q] - SpringCustom(b)[1][q]) < 10

ClaimedEasingsEqual(a, b) ==
    /\ a.type = b.type
    /\ a.type = "spring" => FourWithinHundredth(a, b)
    /\ a.type = "cubic-bezier" => a.cubicBezier = b.cubicBezier

ClaimedConditions ==
    /\ FirstX # 0 /\ FirstY # 0
    /\ animations[FirstX].timing.delay = animations[FirstY].timing.delay
    /\ ClaimedEasingsEqual(animations[FirstX].easing, animations[FirstY].easing)

Differ64(x, y) == AbsDiff64(Number(x), Number(y))

SpringsMatch(a, b) ==
    IF SpringCustom(a) # <<>> /\ SpringCustom(b) # <<>>
    THEN \A q \in SpringParams :
            /\ q \in DOMAIN SpringCustom(a)[1]
            /\ q \in DOMAIN SpringCustom(b)[1]
            /\ Less64(Differ64(SpringCustom(a)[1][q], SpringCustom(b)[1][q]), Number(10))
    ELSE SpringPreset(a) = SpringPreset(b)

MergeConditions ==
    /\ FirstX # 0 /\ FirstY # 0
    /\ animations[FirstX].timing.delay = animations[FirstY].timing.delay
    /\ LET a == animations[FirstX].easing
           b == animations[FirstY].easing
       IN  /\ a.type = b.type
           /\ a.type = "spring" => SpringsMatch(a, b)
           /\ a.type = "cubic-bezier" => a.cubicBezier = b.cubicBezier

SwapXY(list) ==
    LET ix == FindProperty(AsItems(list), "Position X")
        iy == FindProperty(AsItems(list), "Position Y")
    IN  IF ix = 0 \/ iy = 0 THEN list
        ELSE [i \in 1..Len(list) |-> IF i = ix THEN list[iy] ELSE IF i = iy THEN list[ix] ELSE list[i]]

MergedEntry(items) == IF IsMerged(items) THEN <<items[1]>> ELSE <<>>

C5_Commutative ==
    (pipePc = "grouped" /\ regroups = 1) =>
        MergedEntry(groupPositionAnimations(AsItems(SwapXY(animations)))) = MergedEntry(grouped)

C5_IdempotentAndCommutative ==
    /\ [][(regroups >= 1 /\ regroups' = regroups + 1) => grouped' = grouped]_vars
    /\ []C5_Commutative

(***************************************************************************)
(* C6: for a combined two-axis Position property under any multiplier, a   *)
(* "Position X" entry is emitted only if abs(endX - startX) > 0.5 in       *)
(* scaled pixels (exactly 0.5 emits nothing), the same for "Position Y",   *)
(* and a dropped axis leaves no entry, not a zero-change one.              *)
(***************************************************************************)
FirstSelected == SelectedKeys(propInfo.keys)[1]
LastSelected == SelectedKeys(propInfo.keys)[Len(SelectedKeys(propInfo.keys))]

\* abs(end - start) on the axis, in scaled pixels
ScaledChange(axis) ==
    Abs(LastSelected.value[axis] \div multiplier - FirstSelected.value[axis] \div multiplier)

Emitted(name) == \E i \in 1..Len(animations) : animations[i].property = name

C6_AxisOnlyAboveHalfPixel ==
    (pipePc = "group" /\ propInfo.name = "Position" /\ Len(SelectedKeys(propInfo.keys)) >= 2) =>
        /\ Emitted("Position X") => ScaledChange(1) > Half
        /\ Emitted("Position Y") => ScaledChange(2) > Half
        /\ \A i \in 1..Len(animations) :
              animations[i].property \in {"Position X", "Position Y"}
                  => animations[i].values.change # <<0>>

(***************************************************************************)
(* C7: values typed position, corner_radius or dimensional are the raw     *)
(* keyframe values divided by the multiplier (and rounded to whole         *)
(* pixels); values typed scale, rotation or opacity are the raw keyframe   *)
(* values themselves, whatever the multiplier is.                          *)
(***************************************************************************)
RawStart == FirstSelected.value
RawEnd == LastSelected.value

C7_ScalingOnlyForLengths ==
    (animationData # <<>> /\ Len(SelectedKeys(propInfo.keys)) >= 2) =>
        LET v == animationData[1].values
            n == Len(v.startValue)
        IN  /\ v.type \in {"scale", "rotation", "opacity"} =>
                  /\ v.startValue = RawStart
                  /\ v.endValue = RawEnd
                  /\ v.change = [i \in 1..n |-> RawEnd[i] - RawStart[i]]
            /\ v.type \in {"position", "corner_radius", "dimensional"} =>
                  /\ v.startValue = [i \in 1..n |-> roundPx(RawStart[i] \div multiplier)]
                  /\ v.endValue = [i \in 1..n |-> roundPx(RawEnd[i] \div multiplier)]

\* an opacity and a width, both extracted under the 3x multiplier
C7_Witness ==
    /\ animationData # <<>>
    /\ multiplier = 3
    /\ animationData[1].values.type = "opacity"
    /\ animationData[1].values.startValue = <<0>>
    /\ animationData[1].values.endValue = <<Tick * 3>>

(***************************************************************************)
(* C8: after any sequence of dropdown changes, the multiplier a build      *)
(* applies is one of 1..4, and when the override setting is above 0 it is  *)
(* exactly the override, whatever the composition's size.                  *)
(***************************************************************************)
C8_MultiplierRangeAndOverride ==
    composition # <<>> =>
        /\ composition[1].appliedScale \in 1..4
        /\ composition[1].scaleSettingIndex > 0 =>
               composition[1].appliedScale = composition[1].scaleSettingIndex

\* a 2x-sized composition built under the 3x override: the override wins
C8_Witness ==
    /\ composition # <<>>
    /\ composition[1].width = 750 /\ composition[1].height = 1334
    /\ composition[1].scaleSettingIndex = 3
    /\ composition[1].appliedScale = 3

(***************************************************************************)
(* C9: the preset matcher returns preset P's name if and only if each of   *)
(* the four coordinates differs from P's by strictly less than 0.15 (as    *)
(* decimals: exactly 0.15 away is no match, +d and -d alike), whatever the *)
(* number formatting; otherwise no name.                                   *)
(***************************************************************************)
DecimalWithin(bez, key) ==
    \A i \in 1..4 : Abs(Hundredths(bez[i]) - Hundredths(key[i])) < 15

C9_PresetIffWithinTolerance ==
    bezPc = "matched" =>
        /\ \A k \in 1..Len(CUBIC_BEZIER_PRESETS) :
              presetName = CUBIC_BEZIER_PRESETS[k].name
                  <=> DecimalWithin(cubicBezier, CUBIC_BEZIER_PRESETS[k].key)
        /\ (\A k \in 1..Len(CUBIC_BEZIER_PRESETS) :
                ~DecimalWithin(cubicBezier, CUBIC_BEZIER_PRESETS[k].key))
              => presetName = NoValue

(***************************************************************************)
(* C10: an exception raised while one selected layer, or one of its        *)
(* properties, is processed never leaves the build: a document is          *)
(* returned, and the entries of every other selected layer are what they   *)
(* are without the failure.                                                *)
(***************************************************************************)
EntriesOf(doc, name) == SelectSeq(doc, LAMBDA e : e.layerName = name)

\* the document the same build returns when nothing throws
WithoutFailure == buildMotionSpecData(compLayers, selectedLayers, NoFault)

C10_FailureStaysInItsLayer ==
    (buildPc # "build" /\ fault # NoFault) =>
        /\ buildPc = "returned"
        /\ \A i \in 1..Len(compLayers) :
              i # fault[2] =>
                  EntriesOf(motionSpec[1].layers, compLayers[i].name)
                      = EntriesOf(WithoutFailure, compLayers[i].name)

(***************************************************************************)
(* C11: when the extraction of one property of a layer throws, the layer   *)
(* is skipped entirely: the returned document has no entry for that layer, *)
(* in particular no entry that holds the layer's other properties only.    *)
(***************************************************************************)
C11_FailedLayerSkippedEntirely ==
    (buildPc = "returned" /\ fault[1] = "extract") =>
        EntriesOf(motionSpec[1].layers, compLayers[fault[2]].name) = <<>>

(***************************************************************************)
(* C12: an export entry point that ran answers success: false whenever the *)
(* selection yielded no animation data (nothing selected, or a built       *)
(* document without a layer entry), and a failure answer for a document    *)
(* that has layer entries comes from the clipboard or the file system      *)
(* only, never from malformed per-layer input.                             *)
(***************************************************************************)
OutputErrors == {"Clipboard operation failed", "Failed to write motion spec file"}

C12_NoAnimationDataIsReported ==
    result # <<>> =>
        /\ (motionSpec = <<>> \/ motionSpec[1].layers = <<>>) => ~result[1].success
        /\ (~result[1].success /\ motionSpec # <<>> /\ motionSpec[1].layers # <<>>)
              => result[1].error \in OutputErrors

(***************************************************************************)
(* C13: in the layers of the returned document the top-level entries       *)
(* follow the selection order, and an entry emitted as a parented child    *)
(* comes right after its parent's entry (when the parent has one), with    *)
(* nothing but children of the same parent in between, and its layer has   *)
(* no top-level entry as well; for the selection in layer order and in     *)
(* reverse.                                                                *)
(***************************************************************************)
IsChildEntry(e) == e.layerType = "parented"

TopLevel(doc) == SelectSeq(doc, LAMBDA e : ~IsChildEntry(e))

SelectionRank(name) == CHOOSE s \in 1..Len(selectedLayers) : selectedLayers[s] = name

InSelectionOrder(doc) ==
    LET top == TopLevel(doc)
    IN  \A a, b \in 1..Len(top) :
            a < b => SelectionRank(top[a].layerName) < SelectionRank(top[b].layerName)

ChildFollowsParent(doc, k) ==
    LET parentName == doc[k].parenting[1].parentName
    IN  /\ (\E q \in 1..Len(doc) : doc[q].layerName = parentName) =>
              \E q \in 1..(k - 1) :
                  /\ doc[q].layerName = parentName
                  /\ \A j \in (q + 1)..(k - 1) :
                        IsChildEntry(doc[j]) /\ doc[j].parenting[1].parentName = parentName
        /\ \A j \in 1..Len(doc) : doc[j].layerName = doc[k].layerName => IsChildEntry(doc[j])

C13_SelectionOrderChildrenAfterParent ==
    (motionSpec # <<>> /\ fault = NoFault) =>
        LET doc == motionSpec[1].layers
        IN  /\ InSelectionOrder(doc)
            /\ \A k \in 1..Len(doc) : IsChildEntry(doc[k]) => ChildFollowsParent(doc, k)

(***************************************************************************)
(* C14: a second run of buildMotionSpecData on the same composition and    *)
(* the same selection returns a document identical to the first one.       *)
(***************************************************************************)
C14_SameInputsSameDocument ==
    earlier # <<>> => motionSpec = earlier

(***************************************************************************)
(* C15: the layers of the main loop are the per-layer results, each        *)
(* computed on its own without anything left by the other layers' turns,   *)
(* put together in selection order.                                        *)
(***************************************************************************)
RECURSIVE AssembledFrom(_)
AssembledFrom(i) ==
    IF i > Len(selectedLayers) THEN <<>>
    ELSE LayerTurn(compLayers, selectedLayers, fault, i, {}).layers \o AssembledFrom(i + 1)

C15_LayersIndependent ==
    (motionSpec # <<>> /\ fault = NoFault) =>
        MainLoop(compLayers, selectedLayers, fault, 1, <<>>, {}).layers = AssembledFrom(1)

ClaimOrder ==
    << "fitToShapeTemplate", "cornerRadiusTemplate", "alphaTemplate", "scaleTemplate",
       "positionTemplate", "rotationTemplate", "genericTemplate" >>

\* the entries described by one template
DescribedBy(template) ==
    { i \in 1..Len(descriptions) : descriptions[i].claimedBy = template }

C18_OpacityDecisionList ==
    pipePc = "described" =>
        \A i \in DescribedBy("alphaTemplate") :
            LET startValue == animations[i].values.startValue[1]
                endValue   == animations[i].values.endValue[1]
            IN  descriptions[i].description =
                    IF startValue = 0 /\ endValue = 100 * Tick
                    THEN "Alpha animates from 0% - 100%"
                    ELSE IF startValue = 0 THEN "Fades in to " \o Percent(endValue)
                    ELSE IF endValue = 0 THEN "Fades out from " \o Percent(startValue)
                    ELSE "Alpha animates from " \o Percent(startValue) \o " - " \o Percent(endValue)

\* C18 amended: start 0 and end 100 give "Alpha animates from 0% - 100%", start
\* 100 and end 0 give "Alpha animates from 100% - 0%"; otherwise start 0 gives
\* "Fades in to N%"; otherwise end 0 gives "Fades out from N%"; otherwise
\* "Alpha animates from X% - Y%".
C18_OpacityDecisionListWithFullFade ==
    pipePc = "described" =>
        \A i \in DescribedBy("alphaTemplate") :
            LET startValue == animations[i].values.startValue[1]
                endValue   == animations[i].values.endValue[1]
                text       == descriptions[i].description
            IN  /\ (startValue = 0 /\ endValue = 100 * Tick) => text = "Alpha animates from 0% - 100%"
                /\ (startValue = 100 * Tick /\ endValue = 0) => text = "Alpha animates from 100% - 0%"
                /\ (startValue = 0 /\ endValue # 100 * Tick) =>
                        text = "Fades in to " \o Percent(endValue)
                /\ (startValue \notin {0, 100 * Tick} /\ endValue = 0) =>
                        text = "Fades out from " \o Percent(startValue)
                /\ (startValue # 0 /\ endValue # 0) =>
                        text = "Alpha animates from " \o Percent(startValue) \o " - "
                                    \o Percent(endValue)

\* C18 happens: a fade from 100 to 0 is described, and so is one from 50 to 0
C18_Witness ==
    /\ pipePc = "described"
    /\ Len(descriptions) = 2
    /\ descriptions[1].claimedBy = "alphaTemplate"
    /\ descriptions[1].description = "Alpha animates from 0% - 100%"
    /\ descriptions[2].claimedBy = "alphaTemplate"
    /\ animations[2].values.startValue = <<100 * Tick>>
    /\ animations[2].values.endValue = <<0>>
    /\ descriptions[2].description = "Alpha animates from 100% - 0%"

\* the layer has the one property Position, from [0, 0] to [100, 0], and the
\* multiplier is 1
MovesRightByHundred ==
    /\ multiplier = 1
    /\ Len(animationsData) = 1
    /\ propInfo.name = "Position"
    /\ propInfo.keys[1].value = <<0, 0>>
    /\ propInfo.keys[2].value = <<100 * Tick, 0>>

\* C19: a single-axis position entry with whole change c and start s reads, on
\* X, "Moves |c|px from the left" for c > 0, "Moves |c|px from the right" for
\* c < 0 and "... stays at spx" for c = 0; on Y, "Moves up |c|px" for c < 0,
\* "Moves down cpx" for c > 0 and "... stays at spx" for c = 0.  A Position from
\* [0, 0] to [100, 0] at multiplier 1 gives the one entry "Position X", start
\* 0, end 100, change 100, "Moves 100px from the left", and no "Position Y".
C19_PositionDescriptions ==
    pipePc = "described" =>
        /\ \A i \in DescribedBy("positionTemplate") :
              LET c    == animations[i].values.change[1]
                  s    == animations[i].values.startValue[1]
                  text == descriptions[i].description
                  onX  == animations[i].property \in {"Position X", "X Position"}
                  onY  == animations[i].property \in {"Position Y", "Y Position"}
              IN  /\ c % Tick = 0
                  /\ onX \/ onY
                  /\ (onX /\ c > 0) => text = "Moves " \o NumberToString(Abs(c)) \o "px from the left"
                  /\ (onX /\ c < 0) => text = "Moves " \o NumberToString(Abs(c)) \o "px from the right"
                  /\ (onX /\ c = 0) => text = "Position X stays at " \o NumberToString(s) \o "px"
                  /\ (onY /\ c < 0) => text = "Moves up " \o NumberToString(Abs(c)) \o "px"
                  /\ (onY /\ c > 0) => text = "Moves down " \o NumberToString(c) \o "px"
                  /\ (onY /\ c = 0) => text = "Position Y stays at " \o NumberToString(s) \o "px"
        /\ MovesRightByHundred =>
              /\ Len(animations) = 1
              /\ animations[1].property = "Position X"
              /\ animations[1].values =
                    [startValue |-> <<0>>, endValue |-> <<100 * Tick>>, change |-> <<100 * Tick>>]
              /\ descriptions[1].description = "Moves 100px from the left"

\* C19 happens: the Position from [0, 0] to [100, 0] at multiplier 1 is described
C19_Witness ==
    /\ pipePc = "described"
    /\ MovesRightByHundred
    /\ fitToShapeData = <<>>
    /\ descriptions[1].claimedBy = "positionTemplate"
    /\ descriptions[1].description = "Moves 100px from the left"

\* the axis prefix a rotation property's name asks for
AxisPrefix(property) ==
    CASE property = "X Rotation" -> "X "
      [] property = "Y Rotation" -> "Y "
      [] property = "Z Rotation" -> "Z "
      [] OTHER -> ""

\* C20: a rotation is described as "Rotates {axis}{D}° {direction}", D the
\* absolute value of the rounded change, direction "clockwise" exactly when
\* the change is above 0 and "counterclockwise" otherwise, 0 included, the
\* axis prefix from the property name; a change of -90 of "Rotation" reads
\* "Rotates 90° counterclockwise".
C20_RotationDescriptions ==
    pipePc = "described" =>
        \A i \in DescribedBy("rotationTemplate") :
            LET change == animations[i].values.change[1]
                D      == Abs(MathRound(change))
                text   == descriptions[i].description
            IN  /\ text = "Rotates " \o AxisPrefix(animations[i].property) \o NumberToString(D) \o "° "
                            \o (IF change > 0 THEN "clockwise" ELSE "counterclockwise")
                /\ (animations[i].property = "Rotation" /\ change = (-90) * Tick) =>
                        text = "Rotates 90° counterclockwise"

\* C20 happens: a change of -90 of "Rotation" is described
C20_Witness ==
    /\ pipePc = "described"
    /\ Len(descriptions) = 1
    /\ animations[1].property = "Rotation"
    /\ animations[1].values.change = <<(-90) * Tick>>
    /\ descriptions[1].description = "Rotates 90° counterclockwise"

(***************************************************************************)
(* The multiplier of a composition.                                        *)
(***************************************************************************)
\* the width is within 5 of some width of bucket i and the height within 5 of
\* some height of it
NearSomeEntries(i, width, height) ==
    /\ \E j \in 1..Len(resolutionPatterns[i].widths) :
          Abs(width - resolutionPatterns[i].widths[j]) <= 5
    /\ \E k \in 1..Len(resolutionPatterns[i].heights) :
          Abs(height - resolutionPatterns[i].heights[k]) <= 5

\* the width and the height are within 5 of one size of bucket i
NearOneSize(i, width, height) ==
    \E j \in 1..Len(resolutionPatterns[i].widths) :
        /\ Abs(width - resolutionPatterns[i].widths[j]) <= 5
        /\ Abs(height - resolutionPatterns[i].heights[j]) <= 5

\* C21 as stated: with the override at 0 the multiplier is that of the first
\* bucket, multipliers ascending, with the width within 5 of some width of the
\* bucket and the height within 5 of some height of it, not necessarily at the
\* same index, and 1 when no bucket matches.
C21_AnyWidthAnyHeight ==
    (composition # <<>> /\ composition[1].scaleSettingIndex = 0) =>
        LET matching == { i \in 1..Len(resolutionPatterns) :
                             NearSomeEntries(i, comp.width, comp.height) }
        IN  IF matching = {} THEN composition[1].appliedScale = 1
            ELSE \E i \in matching :
                    /\ composition[1].appliedScale = resolutionPatterns[i].multiplier
                    /\ \A k \in matching :
                          resolutionPatterns[i].multiplier <= resolutionPatterns[k].multiplier

\* C21 amended: with the override at 0 the multiplier is that of the first
\* bucket of the table with a size (the width and the height at one index)
\* within 5 of the composition's width and height, and 1 when there is none.
C21_WidthAndHeightOfOneSize ==
    (composition # <<>> /\ composition[1].scaleSettingIndex = 0) =>
        LET matching == { i \in 1..Len(resolutionPatterns) :
                             NearOneSize(i, comp.width, comp.height) }
        IN  IF matching = {} THEN composition[1].appliedScale = 1
            ELSE \E i \in matching :
                    /\ composition[1].appliedScale = resolutionPatterns[i].multiplier
                    /\ \A k \in matching : i <= k

\* C21 happens: 750 x 1688, the width of one 2x size and the height of
\* another, is given the multiplier 1
C21_Witness ==
    /\ composition # <<>>
    /\ composition[1].scaleSettingIndex = 0
    /\ comp = [width |-> 750, height |-> 1688]
    /\ NearSomeEntries(2, comp.width, comp.height)
    /\ composition[1].appliedScale = 1

(***************************************************************************)
(* The timing of a merged pair.                                            *)
(***************************************************************************)
\* the merged items of a list
MergedItems(items) == { i \in 1..Len(items) : Len(items[i]) = 2 }

\* C22: Position X and Position Y are merged only when they share their whole
\* timing, the duration as well as the delay, so that the one timing of the
\* merged entry is the timing of both axes.
C22_MergedShareWholeTiming ==
    pipePc = "grouped" =>
        \A i \in MergedItems(grouped) :
            /\ grouped[i][1].timing.delay = grouped[i][2].timing.delay
            /\ grouped[i][1].timing.duration = grouped[i][2].timing.duration

(***************************************************************************)
(* The spring chosen among the markers.                                    *)
(***************************************************************************)
\* the springs of the markers in the selected range: <<marker, index>>
SpringsInRange ==
    { c \in (1..Len(layer.marker)) \X (1..3) :
        /\ layer.marker[c[1]].time >= SelectedTimes[1]
        /\ layer.marker[c[1]].time <= SelectedTimes[Len(SelectedTimes)]
        /\ c[2] <= Len(parseAllSpringsFromMarker(layer.marker[c[1]].comment)) }

SpringOf(c) == parseAllSpringsFromMarker(layer.marker[c[1]].comment)[c[2]]

\* how a marker spring's target relates to the property
TargetMatch(sp) ==
    IF sp.property = <<>> THEN "generic"
    ELSE IF sp.property = propInfo.matchName THEN "exact"
    ELSE IF Len(sp.property) > Len(propInfo.matchName)
            /\ SubSeq(sp.property, Len(sp.property) - Len(propInfo.matchName) + 1,
                      Len(sp.property)) = propInfo.matchName
    THEN "suffix"
    ELSE "none"

\* C23: among the springs of all the markers in the selected range, one without
\* a target is chosen only if none matches the property exactly or by suffix,
\* and one matching by suffix only if none matches exactly; no spring of a
\* marker outside the range is used.
C23_ExactThenSuffixThenGeneric ==
    (animationData # <<>> /\ Len(SelectedTimes) >= 2 /\ animationData[1].easing.type = "spring") =>
        \E c \in SpringsInRange :
            /\ TargetMatch(SpringOf(c)) # "none"
            /\ animationData[1].easing.spring[1] = Backfill(SpringOf(c))
            /\ TargetMatch(SpringOf(c)) = "generic" =>
                  \A d \in SpringsInRange : TargetMatch(SpringOf(d)) \notin {"exact", "suffix"}
            /\ TargetMatch(SpringOf(c)) = "suffix" =>
                  \A d \in SpringsInRange : TargetMatch(SpringOf(d)) # "exact"

\* the spring the marker loop matched
MatchedSpring ==
    findSpringForProperty(
        parseAllSpringsFromMarker(
            layer.marker[FirstMatchingMarker(layer.marker, SelectedTimes, propInfo.matchName)].comment),
        propInfo.matchName)[1]

\* C24: a spring easing whose preset name is in the preset table carries all
\* four parameters: each parameter given in the marker keeps the marker's
\* value, zero included, and the others take the values of the table.
C24_BackfillKeepsMarkerValues ==
    (animationData # <<>> /\ Len(SelectedTimes) >= 2 /\ animationData[1].easing.type = "spring"
        /\ animationData[1].easing.spring[1].preset \in DOMAIN SPRING_PRESETS) =>
        LET springData == animationData[1].easing.spring[1]
            given      == IF MatchedSpring.custom = <<>> THEN <<>> ELSE MatchedSpring.custom[1]
        IN  /\ springData.custom # <<>>
            /\ DOMAIN springData.custom[1] = {"stiffness", "damping", "dampingRatio", "mass"}
            /\ \A q \in DOMAIN springData.custom[1] :
                  springData.custom[1][q] =
                      IF q \in DOMAIN given THEN given[q] ELSE SPRING_PRESETS[springData.preset][q]

(***************************************************************************)
(* The delays of a stagger group.                                          *)
(***************************************************************************)
\* the delay of the first animation of the k-th layer of a list
FirstDelay(list, k) == list[k].animations[1].timing.delay

\* the candidates of layer i, in the order of the document
CandidatesOf(i) == SelectSeq(layers, LAMBDA l : l.name \in MatchingLayers(i))

\* C25 as stated: of every emitted group with an offset, the offset is the
\* 2nd candidate's first delay minus the 1st's, and the candidate at index i
\* (from 0) has the first delay offset * i within 5 ms.
C25_DelayIsOffsetTimesIndex ==
    staggerPc = "done" =>
        \A g \in 1..Len(groups) :
            groups[g].delayOffset # 0 =>
                /\ groups[g].delayOffset = FirstDelay(groups[g].layers, 2) - FirstDelay(groups[g].layers, 1)
                /\ \A k \in 1..Len(groups[g].layers) :
                      Abs(FirstDelay(groups[g].layers, k) - groups[g].delayOffset * (k - 1)) < 5

\* C25 amended: of every emitted group the offset is the 2nd candidate's first
\* delay minus the 1st's, and the candidate at index i (from 0) has the first
\* delay of the 1st candidate plus offset * i within 5 ms; a set of candidates
\* of which one deviates gives no group.
C25_DelayIsFirstPlusOffsetTimesIndex ==
    staggerPc = "done" =>
        /\ \A g \in 1..Len(groups) :
              /\ groups[g].delayOffset = FirstDelay(groups[g].layers, 2) - FirstDelay(groups[g].layers, 1)
              /\ \A k \in 1..Len(groups[g].layers) :
                    Abs(FirstDelay(groups[g].layers, k)
                          - (FirstDelay(groups[g].layers, 1) + groups[g].delayOffset * (k - 1))) < 5
        /\ \A i \in 1..Len(layers) :
              LET cs == CandidatesOf(i)
              IN  (/\ Len(layers[i].animations) >= 2
                   /\ Len(cs) >= 3
                   /\ \E k \in 1..Len(cs) :
                         Abs(FirstDelay(cs, k)
                               - (FirstDelay(cs, 1) + (FirstDelay(cs, 2) - FirstDelay(cs, 1)) * (k - 1))) >= 5)
                  => \A g \in 1..Len(groups) : groups[g].layers # cs

\* C25 happens: three matching layers delayed by 100, 50 and 0 ms are a group
\* with the offset -50
C25_Witness ==
    /\ staggerPc = "done"
    /\ Len(layers) = 3
    /\ Len(layers[1].animations) = 2
    /\ MatchingLayers(1) = {1, 2, 3}
    /\ \A i \in 1..3 : FirstDelay(layers, i) = 100 - 50 * (i - 1)
    /\ groups # <<>>
    /\ groups[1].delayOffset = -50

\* C30: every emitted group has a delay offset other than 0: three or more
\* matching layers whose first animations start at the same delay are not a
\* stagger group.
C30_NoGroupWithoutOffset ==
    staggerPc = "done" =>
        \A g \in 1..Len(groups) : groups[g].delayOffset # 0

(***************************************************************************)
(* Timing and values of an extracted entry.                                *)
(***************************************************************************)
\* C26: the delay of an extracted entry is the time of the first selected
\* keyframe minus the work-area start and its duration the time of the last
\* selected keyframe minus that of the first, in whole milliseconds (rounded,
\* below half a millisecond 0); the duration is never negative.
C26_TimingFromSelectedKeyframes ==
    animationData # <<>> =>
        /\ animationData[1].timing.delay = roundMs(FirstSelected.time - workAreaStart)
        /\ animationData[1].timing.duration = roundMs(LastSelected.time - FirstSelected.time)
        /\ animationData[1].timing.duration >= 0

\* C27: the start and end values of rotation, opacity and scale entries are
\* whole numbers: the raw keyframe values, not scaled, rounded to whole degrees
\* or percents.
C27_WholeDegreesAndPercents ==
    (animationData # <<>> /\ Len(SelectedKeys(propInfo.keys)) >= 2
        /\ animationData[1].values.type \in {"rotation", "opacity", "scale"}) =>
        LET v == animationData[1].values
        IN  /\ v.startValue = [i \in 1..Len(RawStart) |-> MathRound(RawStart[i])]
            /\ v.endValue = [i \in 1..Len(RawEnd) |-> MathRound(RawEnd[i])]
            /\ \A i \in 1..Len(v.startValue) : v.startValue[i] % Tick = 0
            /\ \A i \in 1..Len(v.endValue) : v.endValue[i] % Tick = 0

\* C28: in every value record change is endValue minus startValue, component
\* by component, also for the kinds that are divided by the multiplier and
\* rounded to whole pixels.
C28_ChangeIsEndMinusStart ==
    (animationData # <<>> /\ Len(SelectedKeys(propInfo.keys)) >= 2) =>
        LET v == animationData[1].values
        IN  v.change = [i \in 1..Len(v.startValue) |-> v.endValue[i] - v.startValue[i]]

(***************************************************************************)
(* The entries of a layer.                                                 *)
(***************************************************************************)
\* the entries of the document that are the layer's
EntriesFor(doc, name) == { k \in 1..Len(doc) : doc[k].layerName = name }

\* C29: in the document of buildMotionSpecData every selected layer has at most
\* one entry, in whatever order the layers were selected, a child before its
\* parent and a child with keyframes of its own included.
C29_AtMostOneEntryPerLayer ==
    (motionSpec # <<>> /\ fault = NoFault) =>
        \A s \in 1..Len(selectedLayers) :
            Cardinality(EntriesFor(motionSpec[1].layers, selectedLayers[s])) <= 1

====
